---- MODULE Spec2Model ----
(***************************************************************************)
(* A model of the mt5-python-bot backtesting core: the primary-structure   *)
(* (PST) segment machine and its coordinator (src/kraken.py), the SR zone  *)
(* aggregation (src/kraken.py), the strategy advisor (src/animus.py) and   *)
(* the simulated account and backtest loop (src/animus.py,                 *)
(* src/src/trading_bot/animus/trade_objects.py).                           *)
(*                                                                         *)
(* Prices are integers.  Python's None is the value None below, which no   *)
(* price, stop or target of the model can take.                            *)
(***************************************************************************)
EXTENDS Integers, Sequences, FiniteSets, TLC

\* ------------------------------------------------------------------ bounds
\* Candle prices range over 1..MaxPrice.
MaxPrice == 4
\* Candles fed to the segment machines in the detector specification.
MaxCandles == 5
\* Candles behind raw SR zones have prices in 1..MaxZonePrice and timestamps in
\* 1..MaxZoneTime (so an SR level yields at most MaxZoneTime zones);
\* compile_zones hands over at most MaxRawZones raw zones, and the zone
\* specification compiles MaxCompiles times.
MaxZonePrice == 3
MaxZoneTime == 2
MaxRawZones == 3
MaxCompiles == 1
\* The account specification takes MaxAccountSteps candle steps over rows with
\* prices in 1..MaxRowPrice.
MaxAccountSteps == 3
\* The stop-move specification takes MaxStopSteps candle steps.
MaxStopSteps == 3
\* The sizing specification calls build_position with balances of up to
\* MaxSizingBalance currency units and stops up to MaxSizingRisk points from
\* the closing price.
MaxSizingBalance == 11
MaxSizingRisk == 25
MaxRowPrice == 3
\* The back test walks a low-TF file of MaxRows rows with prices in
\* 1..MaxDriverPrice, starting after at most MaxWarmUp rows, with at most
\* MaxDriverZones raw SR zones in the look-back window.
MaxRows == 3
MaxDriverPrice == 3
MaxWarmUp == 2
MaxDriverZones == 1

\* ------------------------------------------------------------- primitives
None == 0 - 999999
\* None where the value would otherwise be a record
Nil == [none |-> TRUE]

UP == "UP"
DOWN == "DOWN"
UNDETERMINED == "?"

PST_LEVELS == <<"low", "mid", "high">>
SR_LEVELS == <<"low", "high">>

Prices == 1..MaxPrice

\* class Candle: low <= open, close <= high
CandleShapesOver(prices) ==
    { oc \in [open : prices, high : prices, low : prices, close : prices] :
        /\ oc.low <= oc.open /\ oc.low <= oc.close
        /\ oc.open <= oc.high /\ oc.close <= oc.high }

CandleShapes == CandleShapesOver(Prices)

Candle(ts, shape) ==
    [timestamp |-> ts, open |-> shape.open, high |-> shape.high,
     low |-> shape.low, close |-> shape.close]

\* Candle.dir
CandleDir(c) == IF c.close > c.open THEN UP ELSE DOWN

\* BaseSegment.__init__ / PrimarySegment.__init__
PrimarySegment(time_frame, dir, key_low, key_high, last_low, last_high, key_low_candle, key_high_candle, last_low_candle, last_high_candle) ==
    [time_frame |-> time_frame,
     dir |-> dir,
     key_high |-> key_high,
     key_low |-> key_low,
     last_high |-> last_high,
     last_low |-> last_low,
     key_high_candle |-> key_high_candle,
     key_low_candle |-> key_low_candle,
     last_high_candle |-> last_high_candle,
     last_low_candle |-> last_low_candle,
     choc |-> FALSE,
     choc_confirmed |-> FALSE,
     segment_high |-> None,
     segment_low |-> None,
     bos_num |-> 0,
     in_bos |-> TRUE,
     in_pull_back |-> FALSE,
     in_choc_pull_back |-> FALSE,
     candles |-> <<>>,
     bos_candles |-> <<>>,
     choc_candles |-> <<>>,
     key_high_candles |-> <<>>,
     key_low_candles |-> <<>>,
     highest_candle |-> None,
     lowest_candle |-> None,
     choc_confirm_candle |-> None,
     \* a comparison of a price with None (Python raises TypeError)
     type_error |-> FALSE]

\* PrimarySegment(str(uuid4()), time_frame): every argument defaulted
FirstSegment(time_frame) ==
    PrimarySegment(time_frame, UNDETERMINED, None, None, None, None,
                   None, None, None, None)

\* BaseSegment.opp_dir
OppDir(s) == IF s.dir = UP THEN DOWN ELSE UP

\* set_last_high_low that tracks neither level while the segment is in BOS
SetLastHighLowOutsideBos(s, c) ==
    LET s1 == IF ~s.in_bos
                 /\ (s.last_high = None \/ s.last_high < c.high)
              THEN [s EXCEPT !.last_high = c.high, !.last_high_candle = c.timestamp]
              ELSE s
    IN  IF ~s1.in_bos
           /\ (s1.last_low = None \/ s1.last_low > c.low)
        THEN [s1 EXCEPT !.last_low = c.low, !.last_low_candle = c.timestamp]
        ELSE s1

\* PrimarySegment.set_last_high_low
SetLastHighLow(s, c) ==
    LET s1 == IF ~(s.dir = DOWN /\ s.in_bos)
                 /\ (s.last_high = None \/ s.last_high < c.high)
              THEN [s EXCEPT !.last_high = c.high, !.last_high_candle = c.timestamp]
              ELSE s
    IN  IF ~(s1.dir = UP /\ s1.in_bos)
           /\ (s1.last_low = None \/ s1.last_low > c.low)
        THEN [s1 EXCEPT !.last_low = c.low, !.last_low_candle = c.timestamp]
        ELSE s1

\* update_segment_high_low that records an extreme only when none is set yet
UpdateSegmentHighLowOnce(s, c) ==
    LET s1 == IF s.segment_high = None
              THEN [s EXCEPT !.segment_high = c.high, !.highest_candle = c.timestamp]
              ELSE s
    IN  IF s1.segment_low = None
        THEN [s1 EXCEPT !.segment_low = c.low, !.lowest_candle = c.timestamp]
        ELSE s1

\* PrimarySegment.update_segment_high_low
UpdateSegmentHighLow(s, c) ==
    LET s1 == IF s.segment_high = None \/ s.segment_high < c.high
              THEN [s EXCEPT !.segment_high = c.high, !.highest_candle = c.timestamp]
              ELSE s
    IN  IF s1.segment_low = None \/ s1.segment_low > c.low
        THEN [s1 EXCEPT !.segment_low = c.low, !.lowest_candle = c.timestamp]
        ELSE s1

\* PrimarySegment.add_candle, case UNDETERMINED
AddCandleUndetermined(s, c) ==
    SetLastHighLow([s EXCEPT !.dir = CandleDir(c),
                             !.key_high = c.high,
                             !.key_high_candle = c.timestamp,
                             !.key_low = c.low,
                             !.key_low_candle = c.timestamp,
                             !.in_bos = TRUE], c)

\* a pull back that leaves in_bos set
UpPullBackKeepsBos(s, c) ==
    IF ~s.in_pull_back /\ s.in_bos /\ CandleDir(c) = DOWN
    THEN [s EXCEPT !.in_pull_back = TRUE,
                   !.key_high = s.last_high,
                   !.key_high_candle = s.last_high_candle,
                   !.key_high_candles = Append(@, s.last_high_candle)]
    ELSE s

\* add_candle, case UP: "if price hasnt pulled back since last BOS, check for pull back"
UpPullBack(s, c) ==
    IF ~s.in_pull_back /\ s.in_bos /\ CandleDir(c) = DOWN
    THEN [s EXCEPT !.in_pull_back = TRUE,
                   !.in_bos = FALSE,
                   !.key_high = s.last_high,
                   !.key_high_candle = s.last_high_candle,
                   !.key_high_candles = Append(@, s.last_high_candle)]
    ELSE s

\* add_candle, case UP: "if price hasnt pulled back since getting into ChOC"
UpChocPullBack(s, c) ==
    IF s.choc /\ ~s.in_choc_pull_back /\ CandleDir(c) = UP
    THEN [s EXCEPT !.in_choc_pull_back = TRUE,
                   !.key_low = s.last_low,
                   !.key_low_candle = s.last_low_candle,
                   !.key_low_candles = Append(@, s.last_low_candle),
                   !.last_high = c.high,
                   !.last_high_candle = c.timestamp]
    ELSE s

\* the BOS test of case UP that lets a close at key_high through
UpBosTestNotStrict(s, c) == c.close >= s.key_high /\ s.in_pull_back /\ CandleDir(c) = UP

\* add_candle, case UP: the BOS test
UpBosTest(s, c) == c.close > s.key_high /\ s.in_pull_back /\ CandleDir(c) = UP

\* add_candle, case UP: the BOS branch
UpBos(s, c) ==
    LET fromCandle == s.last_low = None \/ c.low < s.last_low
    IN  [s EXCEPT !.bos_num = @ + 1,
                  !.in_pull_back = FALSE,
                  !.in_choc_pull_back = FALSE,
                  !.choc = FALSE,
                  !.in_bos = TRUE,
                  !.bos_candles = Append(@, c.timestamp),
                  !.key_low = IF fromCandle THEN c.low ELSE s.last_low,
                  !.key_low_candle = IF fromCandle THEN c.timestamp ELSE s.last_low_candle,
                  !.key_low_candles = Append(@, IF fromCandle THEN c.timestamp ELSE s.last_low_candle),
                  !.last_low = None,
                  !.last_low_candle = None]

\* the ChOC branch of case UP that also counts the candle as a BOS
UpChocCountedAsBos(s, c) ==
    IF ~s.choc
    THEN [s EXCEPT !.choc = TRUE,
                   !.bos_num = @ + 1,
                   !.bos_candles = Append(@, c.timestamp),
                   !.last_low = c.low,
                   !.last_low_candle = c.timestamp,
                   !.choc_candles = Append(@, c.timestamp)]
    ELSE IF s.choc /\ s.in_choc_pull_back
    THEN [s EXCEPT !.choc_confirmed = TRUE,
                   !.key_high = s.last_high,
                   !.key_high_candle = s.last_high_candle,
                   !.key_high_candles = Append(@, s.last_high_candle),
                   !.last_low = c.low,
                   !.last_low_candle = c.timestamp,
                   !.choc_confirm_candle = c.timestamp]
    ELSE s

\* add_candle, case UP: the ChOC / ChOC-confirm branch (candle.close < key_low)
UpChoc(s, c) ==
    IF ~s.choc
    THEN [s EXCEPT !.choc = TRUE,
                   !.last_low = c.low,
                   !.last_low_candle = c.timestamp,
                   !.choc_candles = Append(@, c.timestamp)]
    ELSE IF s.choc /\ s.in_choc_pull_back
    THEN [s EXCEPT !.choc_confirmed = TRUE,
                   !.key_high = s.last_high,
                   !.key_high_candle = s.last_high_candle,
                   !.key_high_candles = Append(@, s.last_high_candle),
                   !.last_low = c.low,
                   !.last_low_candle = c.timestamp,
                   !.choc_confirm_candle = c.timestamp]
    ELSE s

\* PrimarySegment.add_candle, case UP
AddCandleUp(s, c) ==
    LET s2 == UpChocPullBack(UpPullBack(s, c), c)
    IN  IF s2.key_high = None THEN [s2 EXCEPT !.type_error = TRUE]
        ELSE IF UpBosTest(s2, c) THEN SetLastHighLow(UpBos(s2, c), c)
        ELSE IF s2.key_low = None THEN [s2 EXCEPT !.type_error = TRUE]
        ELSE IF c.close < s2.key_low THEN SetLastHighLow(UpChoc(s2, c), c)
        ELSE SetLastHighLow(s2, c)

\* add_candle, case DOWN: pull back after BOS
DownPullBack(s, c) ==
    IF ~s.in_pull_back /\ s.in_bos /\ CandleDir(c) = UP
    THEN [s EXCEPT !.in_pull_back = TRUE,
                   !.in_bos = FALSE,
                   !.key_low = s.last_low,
                   !.key_low_candle = s.last_low_candle,
                   !.key_high_candles = Append(@, s.last_high_candle)]
    ELSE s

\* add_candle, case DOWN: ChOC pull back
DownChocPullBack(s, c) ==
    IF s.choc /\ ~s.in_choc_pull_back /\ CandleDir(c) = DOWN
    THEN [s EXCEPT !.in_choc_pull_back = TRUE,
                   !.key_high = s.last_high,
                   !.key_high_candle = s.last_high_candle,
                   !.key_high_candles = Append(@, s.last_high_candle),
                   !.last_low = c.low,
                   !.last_low_candle = c.timestamp]
    ELSE s

\* add_candle, case DOWN: the BOS test
DownBosTest(s, c) == c.close < s.key_low /\ s.in_pull_back /\ CandleDir(c) = DOWN

\* the BOS branch of case DOWN that does not record the BOS candle
DownBosUnrecorded(s, c) ==
    LET fromCandle == s.last_high = None \/ c.high > s.last_high
    IN  [s EXCEPT !.bos_num = @ + 1,
                  !.in_pull_back = FALSE,
                  !.in_choc_pull_back = FALSE,
                  !.choc = FALSE,
                  !.in_bos = TRUE,
                  !.key_high = IF fromCandle THEN c.high ELSE s.last_high,
                  !.key_high_candle = IF fromCandle THEN c.timestamp ELSE s.last_high_candle,
                  !.key_high_candles = Append(@, IF fromCandle THEN c.timestamp ELSE s.last_high_candle),
                  !.last_high = None,
                  !.last_high_candle = None]

\* add_candle, case DOWN: the BOS branch
DownBos(s, c) ==
    LET fromCandle == s.last_high = None \/ c.high > s.last_high
    IN  [s EXCEPT !.bos_num = @ + 1,
                  !.in_pull_back = FALSE,
                  !.in_choc_pull_back = FALSE,
                  !.choc = FALSE,
                  !.in_bos = TRUE,
                  !.bos_candles = Append(@, c.timestamp),
                  !.key_high = IF fromCandle THEN c.high ELSE s.last_high,
                  !.key_high_candle = IF fromCandle THEN c.timestamp ELSE s.last_high_candle,
                  !.key_high_candles = Append(@, IF fromCandle THEN c.timestamp ELSE s.last_high_candle),
                  !.last_high = None,
                  !.last_high_candle = None]

\* the ChOC branch of case DOWN that confirms without a ChOC pull back
DownChocWithoutPullBack(s, c) ==
    IF ~s.choc
    THEN [s EXCEPT !.choc = TRUE,
                   !.last_high = c.high,
                   !.last_high_candle = c.timestamp,
                   !.choc_candles = Append(@, c.timestamp)]
    ELSE [s EXCEPT !.choc_confirmed = TRUE,
                   !.key_low = s.last_low,
                   !.key_low_candle = s.last_low_candle,
                   !.key_low_candles = Append(@, s.last_low_candle),
                   !.last_high = c.high,
                   !.last_high_candle = c.timestamp,
                   !.choc_confirm_candle = c.timestamp]

\* add_candle, case DOWN: the ChOC / ChOC-confirm branch (candle.close > key_high)
DownChoc(s, c) ==
    IF ~s.choc
    THEN [s EXCEPT !.choc = TRUE,
                   !.last_high = c.high,
                   !.last_high_candle = c.timestamp,
                   !.choc_candles = Append(@, c.timestamp)]
    ELSE IF s.choc /\ s.in_choc_pull_back
    THEN [s EXCEPT !.choc_confirmed = TRUE,
                   !.key_low = s.last_low,
                   !.key_low_candle = s.last_low_candle,
                   !.key_low_candles = Append(@, s.last_low_candle),
                   !.last_high = c.high,
                   !.last_high_candle = c.timestamp,
                   !.choc_confirm_candle = c.timestamp]
    ELSE s

\* PrimarySegment.add_candle, case DOWN
AddCandleDown(s, c) ==
    LET s2 == DownChocPullBack(DownPullBack(s, c), c)
    IN  IF s2.key_low = None THEN [s2 EXCEPT !.type_error = TRUE]
        ELSE IF DownBosTest(s2, c) THEN SetLastHighLow(DownBos(s2, c), c)
        ELSE IF s2.key_high = None THEN [s2 EXCEPT !.type_error = TRUE]
        ELSE IF c.close > s2.key_high THEN SetLastHighLow(DownChoc(s2, c), c)
        ELSE SetLastHighLow(s2, c)

\* PrimarySegment.add_candle
AddCandle(s, c) ==
    LET s0 == UpdateSegmentHighLow([s EXCEPT !.candles = Append(@, c.timestamp)], c)
    IN  CASE s0.dir = UNDETERMINED -> AddCandleUndetermined(s0, c)
          [] s0.dir = UP -> AddCandleUp(s0, c)
          [] s0.dir = DOWN -> AddCandleDown(s0, c)

\* Kraken.process_candle: the segment appended after a confirmed ChOC
KrakenNewSegment(last) ==
    PrimarySegment(last.time_frame, OppDir(last), last.key_low, last.key_high, last.last_low, last.last_high, last.key_low_candle, last.key_high_candle, last.last_low_candle, last.last_high_candle)

\* SR_Structure.process_candle: the segment appended after a confirmed ChOC
SRNewSegment(last) ==
    PrimarySegment(last.time_frame, OppDir(last), last.key_low, last.key_high, last.last_low, last.last_high, None, None, None, None)

Last(seq) == seq[Len(seq)]

\* process_candle that hands the candle to the last segment without looking
\* at choc_confirmed
KrakenProcessCandleNoNewSegment(segs, c) ==
    [segs EXCEPT ![Len(segs)] = AddCandle(@, c)]

\* Kraken.process_candle on one level's segment list
KrakenProcessCandle(segs, c) ==
    LET segs1 == IF Last(segs).choc_confirmed THEN Append(segs, KrakenNewSegment(Last(segs))) ELSE segs
    IN  [segs1 EXCEPT ![Len(segs1)] = AddCandle(@, c)]

\* SR_Structure.process_candle on one level's segment list
SRProcessCandle(segs, c) ==
    LET segs1 == IF Last(segs).choc_confirmed THEN Append(segs, SRNewSegment(Last(segs))) ELSE segs
    IN  [segs1 EXCEPT ![Len(segs1)] = AddCandle(@, c)]

\* ------------------------------------------------------ SR zone aggregation
SUPPORT == "SUPPORT"
RESISTANCE == "RESISTANCE"
CANDLE == "CANDLE"
BODY == "BODY"
WICK == "WICK"
\* mode = None, the default of the mode parameter
NoMode == "None"

\* SR_Structure.compile_zones, the body of its loop: the raw zone of a segment
\* of direction dir whose extreme candle is c
RSR_Zone(dir, c) ==
    LET bearish == c.open > c.close
        body == IF bearish THEN <<c.close, c.open>> ELSE <<c.open, c.close>>
    IN  IF dir = UP
        THEN [type |-> RESISTANCE, x |-> c.timestamp,
              full_candle |-> <<c.low, c.high>>, body |-> body,
              wick |-> IF bearish THEN <<c.open, c.high>> ELSE <<c.close, c.high>>]
        ELSE [type |-> SUPPORT, x |-> c.timestamp,
              full_candle |-> <<c.low, c.high>>, body |-> body,
              wick |-> IF bearish THEN <<c.low, c.close>> ELSE <<c.low, c.open>>]

\* SR_Structure.ASR_Zone.__init__
ASR_Zone(type, x, interval) ==
    [type |-> type, x |-> x, interval |-> interval, retests |-> 0]

\* merge_zones / process_zones: "set interval depending on mode"
ModeInterval(raw, mode) ==
    IF mode = WICK THEN raw.wick
    ELSE IF mode = BODY THEN raw.body
    ELSE raw.full_candle

Min2(a, b) == IF a < b THEN a ELSE b

\* merge_zones: the two tests for an overlap
MergeBranch1(aggr, int) == int[2] < aggr.interval[2] /\ int[2] > aggr.interval[1]
MergeBranch2(aggr, int) == int[2] > aggr.interval[2] /\ int[1] < aggr.interval[2]

\* merge_zones: TRUE when it returns True
MergesInto(aggr, raw, mode) ==
    LET int == ModeInterval(raw, mode)
    IN  MergeBranch1(aggr, int) \/ MergeBranch2(aggr, int)

\* merge_zones that leaves the aggregate's anchor and type alone
MergeZonesKeepsAnchor(aggr, raw, mode) ==
    LET int == ModeInterval(raw, mode)
        int_low == Min2(int[1], aggr.interval[1])
        int_high == IF MergeBranch1(aggr, int) THEN aggr.interval[2] ELSE int[2]
    IN  [type |-> aggr.type,
         x |-> aggr.x,
         interval |-> <<int_low, int_high>>,
         retests |-> aggr.retests + 1]

\* SR_Structure.merge_zones: the aggregate after a call that returned True
MergeZones(aggr, raw, mode) ==
    LET int == ModeInterval(raw, mode)
        int_low == Min2(int[1], aggr.interval[1])
        int_high == IF MergeBranch1(aggr, int) THEN aggr.interval[2] ELSE int[2]
        earlier == raw.x < aggr.x
    IN  [type |-> IF earlier THEN raw.type ELSE aggr.type,
         x |-> IF earlier THEN raw.x ELSE aggr.x,
         interval |-> <<int_low, int_high>>,
         retests |-> aggr.retests + 1]

\* SR_Structure.add_to_aggregate_zone: the first aggregate that merges, or 0
FirstMerging(aggrs, raw, mode) ==
    LET hits == { i \in 1..Len(aggrs) : MergesInto(aggrs[i], raw, mode) }
    IN  IF hits = {} THEN 0 ELSE CHOOSE i \in hits : \A j \in hits : i <= j

\* add_to_aggregate_zone that merges the raw zone into every aggregate that
\* overlaps it, not only the first
AddRawZoneToEach(aggrs, raw, mode) ==
    LET hits == { i \in 1..Len(aggrs) : MergesInto(aggrs[i], raw, mode) }
    IN  IF hits # {}
        THEN [i \in 1..Len(aggrs) |->
                 IF i \in hits THEN MergeZones(aggrs[i], raw, mode) ELSE aggrs[i]]
        ELSE Append(aggrs, ASR_Zone(raw.type, raw.x, ModeInterval(raw, mode)))

\* process_zones, one pass of its loop
AddRawZone(aggrs, raw, mode) ==
    LET i == FirstMerging(aggrs, raw, mode)
    IN  IF i # 0
        THEN [aggrs EXCEPT ![i] = MergeZones(@, raw, mode)]
        ELSE Append(aggrs, ASR_Zone(raw.type, raw.x, ModeInterval(raw, mode)))

RECURSIVE AggregateFrom(_, _, _, _)
AggregateFrom(aggrs, raws, k, mode) ==
    IF k > Len(raws) THEN aggrs
    ELSE AggregateFrom(AddRawZone(aggrs, raws[k], mode), raws, k + 1, mode)

\* SR_Structure.process_zones
ProcessZones(aggrs, raws, mode) ==
    IF Len(raws) < 1 THEN aggrs ELSE AggregateFrom(<<>>, raws, 1, mode)

\* ------------------------------------------------------ account, positions
\* Prices of positions, stops and targets are counted in points of
\* 1/PriceScale of a price unit, volumes in lots of 1/VolScale, and money in
\* units of 1/(PriceScale * VolScale), so that the margins, ratios and roundings
\* of the code are exact integer arithmetic.
PriceScale == 10 * 10
VolScale == 5 + 5
MoneyScale == PriceScale * VolScale

BUY == "BUY"
SELL == "SELL"
OPEN == "OPEN"
CLOSED == "CLOSED"

\* config.py / constants.py
init_account_balance == 200
trade_contract_size == 10
max_concurrent_trades == 2
instr == "Step Index"
\* options["risk_per_trade"], symbol["volume_min"], symbol["volume_max"]
risk_per_trade == <<1, 5>>
volume_min == VolScale \div 10
volume_max == 20 * VolScale
InitialBalance == init_account_balance * MoneyScale
\* options["sl_level_margin"], options["move_sl"]: numerator and denominator
sl_level_margin == <<1, 10>>
to_break_even_at_r == <<1, 2>>
trailing_at_r == <<1, 1>>
\* options["reward_ratio"] of None
NoRatio == <<>>
\* options["sr_zone_entry_margin"], ["sr_zone_proximity_margin"], ["sr_zone_clearence_factor"]
sr_zone_entry_margin == <<3, 10>>
sr_zone_proximity_margin == <<3, 10>>
sr_zone_clearence_factor == <<2, 1>>

Abs(x) == IF x < 0 THEN 0 - x ELSE x

\* Account.__init__
Account(balance) ==
    [initial_balance |-> balance, balance |-> balance,
     max_equity |-> balance, min_equity |-> balance, equity |-> balance]

\* Position.__init__
Position(type, entry_time, contract, vol, price, sl, tp) ==
    [type |-> type, instr |-> instr, contract |-> contract, vol |-> vol,
     price |-> price, sl |-> sl, tp |-> tp, state |-> OPEN, initial_sl |-> sl,
     profit |-> 0, reward_units |-> Nil, entry_time |-> entry_time,
     exit_time |-> None, close |-> None]

\* LongPosition.__init__ / ShortPosition.__init__ without the stop-loss test
PositionRejectedTpOnly(type, price, sl, tp) ==
    IF type = SELL
    THEN tp # None /\ tp >= price
    ELSE tp # None /\ tp <= price

\* LongPosition.__init__ / ShortPosition.__init__: TRUE when it raises ValueError
PositionRejected(type, price, sl, tp) ==
    IF type = SELL
    THEN (sl # None /\ sl <= price) \/ (tp # None /\ tp >= price)
    ELSE (sl # None /\ sl >= price) \/ (tp # None /\ tp <= price)

\* Account.count_open_positions
CountOpenPositions(positions) ==
    Cardinality({ i \in 1..Len(positions) : positions[i].state = OPEN })

\* close_position that credits the account without the contract size
ClosePositionNoContract(bk, i, time, price) ==
    LET p == bk.positions[i]
        profit == IF p.type = SELL THEN p.price - price ELSE price - p.price
    IN  IF p.state = OPEN
        THEN [bk EXCEPT
                 !.positions[i] =
                     [p EXCEPT !.profit = profit,
                               !.close = price,
                               !.state = CLOSED,
                               !.reward_units =
                                   IF p.initial_sl # None
                                   THEN [profit |-> profit, risk |-> Abs(p.price - p.initial_sl)]
                                   ELSE Nil,
                               !.exit_time = time],
                 !.account.balance = @ + profit * p.vol]
        ELSE bk

\* Position.close_position on position i of the account's list; bk is the
\* account together with its positions
ClosePosition(bk, i, time, price) ==
    LET p == bk.positions[i]
        profit == IF p.type = SELL THEN p.price - price ELSE price - p.price
    IN  IF p.state = OPEN
        THEN [bk EXCEPT
                 !.positions[i] =
                     [p EXCEPT !.profit = profit,
                               !.close = price,
                               !.state = CLOSED,
                               !.reward_units =
                                   IF p.initial_sl # None
                                   THEN [profit |-> profit, risk |-> Abs(p.price - p.initial_sl)]
                                   ELSE Nil,
                               !.exit_time = time],
                 !.account.balance = @ + profit * p.vol * p.contract]
        ELSE bk

\* check_position_and_update that tests the take profit before the stop loss
CheckPositionAndUpdateTpFirst(bk, i, time, price_low, price_high) ==
    LET p == bk.positions[i]
    IN  IF p.state = CLOSED THEN bk
        ELSE IF p.type = BUY
        THEN IF p.tp # None /\ price_high >= p.tp THEN ClosePosition(bk, i, time, p.tp)
             ELSE IF p.sl # None /\ price_low <= p.sl THEN ClosePosition(bk, i, time, p.sl)
             ELSE bk
        ELSE IF p.type = SELL
        THEN IF p.tp # None /\ price_low <= p.tp THEN ClosePosition(bk, i, time, p.tp)
             ELSE IF p.sl # None /\ price_high >= p.sl THEN ClosePosition(bk, i, time, p.sl)
             ELSE bk
        ELSE bk

\* Position.check_position_and_update on position i
CheckPositionAndUpdate(bk, i, time, price_low, price_high) ==
    LET p == bk.positions[i]
    IN  IF p.state = CLOSED THEN bk
        ELSE IF p.type = BUY
        THEN IF p.sl # None /\ price_low <= p.sl THEN ClosePosition(bk, i, time, p.sl)
             ELSE IF p.tp # None /\ price_high >= p.tp THEN ClosePosition(bk, i, time, p.tp)
             ELSE bk
        ELSE IF p.type = SELL
        THEN IF p.sl # None /\ price_high >= p.sl THEN ClosePosition(bk, i, time, p.sl)
             ELSE IF p.tp # None /\ price_low <= p.tp THEN ClosePosition(bk, i, time, p.tp)
             ELSE bk
        ELSE bk

\* run_backtest: "for position in account.positions: check_position_and_update"
RECURSIVE CheckPositionsFrom(_, _, _, _, _)
CheckPositionsFrom(bk, i, time, price_low, price_high) ==
    IF i > Len(bk.positions) THEN bk
    ELSE CheckPositionsFrom(CheckPositionAndUpdate(bk, i, time, price_low, price_high),
                            i + 1, time, price_low, price_high)

\* Position.get_unrealised_profit
GetUnrealisedProfit(p, price_low, price_high) ==
    IF p.state = CLOSED THEN 0
    ELSE LET pip == IF p.type = BUY
                    THEN IF price_low > p.price THEN price_high - p.price
                         ELSE price_low - p.price
                    ELSE IF price_high < p.price THEN p.price - price_low
                         ELSE p.price - price_high
         IN  pip * p.contract * p.vol

RECURSIVE UnrealisedFrom(_, _, _, _)
UnrealisedFrom(positions, i, price_low, price_high) ==
    IF i > Len(positions) THEN 0
    ELSE GetUnrealisedProfit(positions[i], price_low, price_high)
         + UnrealisedFrom(positions, i + 1, price_low, price_high)

\* update_equity that never lowers min_equity
UpdateEquityMaxOnly(bk, price_low, price_high) ==
    LET equity == bk.account.balance + UnrealisedFrom(bk.positions, 1, price_low, price_high)
    IN  [bk EXCEPT !.account.equity = equity,
                   !.account.max_equity =
                       IF equity > @ THEN equity ELSE @]

\* Account.update_equity
UpdateEquity(bk, price_low, price_high) ==
    LET equity == bk.account.balance + UnrealisedFrom(bk.positions, 1, price_low, price_high)
    IN  [bk EXCEPT !.account.equity = equity,
                   !.account.max_equity =
                       IF equity > @ THEN equity ELSE @,
                   !.account.min_equity =
                       IF equity > bk.account.max_equity THEN @
                       ELSE IF equity < @ THEN equity ELSE @]

\* ------------------------------------------------- run_backtest: the account
\* Comparisons of the quotient num/den (den # 0) with the ratio q[1]/q[2]
RatioGe(num, den, q) ==
    IF den > 0 THEN num * q[2] >= q[1] * den ELSE num * q[2] <= q[1] * den

RatioLe(num, den, q) ==
    IF den > 0 THEN num * q[2] <= q[1] * den ELSE num * q[2] >= q[1] * den

\* LongPosition.move_sl / ShortPosition.move_sl: TRUE when the value is accepted
MoveSlAccepted(p, value, close_price) ==
    /\ value > 0
    /\ IF p.type = BUY THEN close_price > value ELSE close_price < value

\* p.move_sl(value, close) on position i; a refused value raises ValueError
MoveSl(bk, i, value, close_price) ==
    IF MoveSlAccepted(bk.positions[i], value, close_price)
    THEN [bk EXCEPT !.positions[i].sl = value]
    ELSE [bk EXCEPT !.err = TRUE]

\* case "MOVE_SL" that hands every target above trailing_at_r to move_sl,
\* margin-adjusted, wherever it lies
ApplyMoveSlAnyTarget(bk, i, action, close_price) ==
    LET p == bk.positions[i]
        num == p.price - close_price
        den == p.initial_sl - p.price
        margin(x) == (x * sl_level_margin[1]) \div sl_level_margin[2]
    IN  IF p.initial_sl = None THEN [bk EXCEPT !.err = TRUE]
        ELSE IF RatioGe(num, den, to_break_even_at_r) /\ RatioLe(num, den, trailing_at_r)
        THEN MoveSl(bk, i, p.price, close_price)
        ELSE IF ~RatioLe(num, den, trailing_at_r)
        THEN IF p.type = BUY
             THEN MoveSl(bk, i, action.new_sl_target - margin(p.price - p.initial_sl), close_price)
             ELSE MoveSl(bk, i, action.new_sl_target + margin(p.initial_sl - p.price), close_price)
        ELSE bk

\* run_backtest, case "MOVE_SL", for one matching open position
ApplyMoveSl(bk, i, action, close_price) ==
    LET p == bk.positions[i]
        num == p.price - close_price
        den == p.initial_sl - p.price
        margin(x) == (x * sl_level_margin[1]) \div sl_level_margin[2]
    IN  IF p.initial_sl = None THEN [bk EXCEPT !.err = TRUE]
        ELSE IF RatioGe(num, den, to_break_even_at_r) /\ RatioLe(num, den, trailing_at_r)
        THEN MoveSl(bk, i, p.price, close_price)
        ELSE IF ~RatioLe(num, den, trailing_at_r)
        THEN IF action.new_sl_target = None THEN [bk EXCEPT !.err = TRUE]
             ELSE IF action.new_sl_target > p.price /\ p.type = BUY
             THEN MoveSl(bk, i, action.new_sl_target - margin(p.price - p.initial_sl), close_price)
             ELSE IF action.new_sl_target < p.price /\ p.type = SELL
             THEN MoveSl(bk, i, action.new_sl_target + margin(p.initial_sl - p.price), close_price)
             ELSE MoveSl(bk, i, p.price, close_price)
        ELSE bk

\* the positions of an action, closed ones included
ActionTargetsAnyState(p, action) ==
    p.type = action.position_type /\ p.instr = action.instr

\* run_backtest: the positions an action applies to
ActionTargets(p, action) ==
    p.type = action.position_type /\ p.instr = action.instr /\ p.state = OPEN

\* run_backtest: one action applied to the positions from i on; an exception
\* leaves the rest untouched
RECURSIVE ApplyActionFrom(_, _, _, _, _, _)
ApplyActionFrom(bk, action, i, index, close_price, opts) ==
    IF bk.err \/ i > Len(bk.positions) THEN bk
    ELSE IF ~ActionTargets(bk.positions[i], action)
    THEN ApplyActionFrom(bk, action, i + 1, index, close_price, opts)
    ELSE IF action.action = "CLOSE"
    THEN ApplyActionFrom(ClosePosition(bk, i, index, close_price), action, i + 1, index,
                         close_price, opts)
    ELSE IF action.action = "MOVE_SL" /\ opts.move_sl.allow
    THEN ApplyActionFrom(ApplyMoveSl(bk, i, action, close_price), action, i + 1, index,
                         close_price, opts)
    ELSE ApplyActionFrom(bk, action, i + 1, index, close_price, opts)

\* run_backtest: "for action in mods['actions']"
RECURSIVE ApplyActionsFrom(_, _, _, _, _, _)
ApplyActionsFrom(bk, actions, a, index, close_price, opts) ==
    IF bk.err \/ a > Len(actions) THEN bk
    ELSE ApplyActionsFrom(ApplyActionFrom(bk, actions[a], 1, index, close_price, opts),
                          actions, a + 1, index, close_price, opts)

\* run_backtest, lines 650-681, dropping the order one position early
PlaceTradeBelowLimit(bk, order, index, open_positions) ==
    IF order # Nil /\ open_positions + 1 < max_concurrent_trades
    THEN IF PositionRejected(order.type, order.price, order.sl, order.tp)
         THEN [bk EXCEPT !.err = TRUE]
         ELSE [bk EXCEPT !.positions =
                   Append(@, Position(order.type, index, trade_contract_size,
                                      order.vol, order.price, order.sl, order.tp))]
    ELSE bk

\* "place trade" that lets an order through at the limit
PlaceTradeAtLimit(bk, order, index, open_positions) ==
    IF order # Nil /\ open_positions <= max_concurrent_trades
    THEN IF PositionRejected(order.type, order.price, order.sl, order.tp)
         THEN [bk EXCEPT !.err = TRUE]
         ELSE [bk EXCEPT !.positions =
                   Append(@, Position(order.type, index, trade_contract_size,
                                      order.vol, order.price, order.sl, order.tp))]
    ELSE bk

\* run_backtest: "place trade"
PlaceTrade(bk, order, index, open_positions) ==
    IF order # Nil /\ open_positions < max_concurrent_trades
    THEN IF PositionRejected(order.type, order.price, order.sl, order.tp)
         THEN [bk EXCEPT !.err = TRUE]
         ELSE [bk EXCEPT !.positions =
                   Append(@, Position(order.type, index, trade_contract_size,
                                      order.vol, order.price, order.sl, order.tp))]
    ELSE bk

\* run_backtest, the account's part of one candle step: SL/TP checks, equity,
\* the new order, then the advisor's actions
AccountStep(bk, order, actions, index, r, opts) ==
    LET checked == CheckPositionsFrom(bk, 1, index, r.low, r.high)
        valued == UpdateEquity(checked, r.low, r.high)
        placed == PlaceTrade(valued, order, index, CountOpenPositions(valued.positions))
    IN  ApplyActionsFrom(placed, actions, 1, index, r.close, opts)

\* rounding toward zero
RoundDown(n, d) == n \div d

\* Advisor.build_position: the volume in lots of 1/VolScale; balance in money
\* units, risk in points
RoundHalfEven(n, d) ==
    LET q == n \div d
        twice == 2 * (n % d)
    IN  IF twice < d THEN q
        ELSE IF twice > d THEN q + 1
        ELSE IF q % 2 = 0 THEN q ELSE q + 1

\* Advisor.build_position: [order, err]; err is the ZeroDivisionError of a stop
\* at the closing price.  reward_ratio is NoRatio or <<numerator, denominator>>.
BuildPosition(type, closing_price, sl, tp, balance, reward_ratio) ==
    LET risk == Abs(closing_price - sl)
        n == balance * risk_per_trade[1]
        d == risk_per_trade[2] * risk * trade_contract_size
        volume == IF n > volume_max * d THEN volume_max ELSE RoundHalfEven(n, d)
        reward == (reward_ratio[1] * risk) \div reward_ratio[2]
        take_profit == IF reward_ratio = NoRatio THEN tp
                       ELSE IF type = SELL THEN closing_price - reward
                       ELSE closing_price + reward
    IN  IF risk = 0 THEN [order |-> Nil, err |-> TRUE]
        ELSE IF n < volume_min * d THEN [order |-> Nil, err |-> FALSE]
        ELSE [order |-> [type |-> type, instr |-> instr, vol |-> volume,
                         price |-> closing_price, sl |-> sl, tp |-> take_profit],
              err |-> FALSE]

\* ------------------------------------------------------------ the advisor
\* Kraken.get_signal_data: what the advisor reads of one level's current segment
LevelSignal(ps) ==
    [seg_dir |-> ps.dir, in_bos |-> ps.in_bos, choc |-> ps.choc,
     choc_confirmed |-> ps.choc_confirmed,
     key_levels |-> [high |-> ps.key_high, low |-> ps.key_low],
     segment_range |-> [highest |-> ps.segment_high, lowest |-> ps.segment_low]]

\* Kraken.get_signal_data
GetSignalData(segs, zones, sr_structure) ==
    [pst_low |-> LevelSignal(Last(segs["low"])),
     pst_mid |-> LevelSignal(Last(segs["mid"])),
     pst_high |-> LevelSignal(Last(segs["high"])),
     sr_zones |-> IF sr_structure THEN zones ELSE <<>>,
     sr_zones_none |-> ~sr_structure]

\* get_signal_data: ps.candles[-1] of a level without candles raises IndexError
SignalError(segs) == \E l \in DOMAIN segs : Last(segs[l]).candles = <<>>

\* Advisor.__init__
AdvisorInit == [choc_expired |-> FALSE, bos_expired |-> FALSE, mods_bos_expired |-> FALSE]

\* x times the ratio q
Times(x, q) == (x * q[1]) \div q[2]

\* the first zone of the list among those with index in hits
FirstZone(zones, hits) ==
    IF hits = {} THEN Nil ELSE zones[CHOOSE i \in hits : \A j \in hits : i <= j]

\* Advisor.in_zone
InZone(zones, key_level) ==
    FirstZone(zones, { i \in 1..Len(zones) :
                         /\ key_level >= zones[i].interval[1]
                         /\ key_level <= zones[i].interval[2] })

\* Advisor.around_zone
AroundZone(zones, seg_dir, key_level) ==
    FirstZone(zones,
        { i \in 1..Len(zones) :
            LET lo == zones[i].interval[1]
                hi == zones[i].interval[2]
                m == sr_zone_proximity_margin
            IN  \/ /\ key_level >= lo
                   /\ (key_level - hi) * m[2] <= (hi - lo) * m[1]
                   /\ seg_dir = UP
                \/ /\ key_level <= hi
                   /\ (lo - key_level) * m[2] <= (hi - lo) * m[1]
                   /\ seg_dir = DOWN })

\* Advisor.test_zone_exit
TestZoneExit(zone, seg_dir, close_price) ==
    LET lo == zone.interval[1]
        hi == zone.interval[2]
        m == sr_zone_entry_margin
        distance == IF seg_dir = UP THEN lo - close_price ELSE close_price - hi
    IN  distance > 0 /\ distance * m[2] <= (hi - lo) * m[1]

\* Advisor.zone_clearence
ZoneClearence(zones, seg_dir, zone) ==
    LET lo == zone.interval[1]
        hi == zone.interval[2]
        f == sr_zone_clearence_factor
        \* the clearance zone, times f[2]
        c_lo == IF seg_dir = DOWN THEN hi * f[2] ELSE lo * f[2] - (hi - lo) * f[1]
        c_hi == IF seg_dir = DOWN THEN hi * f[2] + (hi - lo) * f[1] ELSE lo * f[2]
    IN  \A i \in 1..Len(zones) :
            \/ zones[i].interval[1] * f[2] >= c_hi
            \/ zones[i].interval[2] * f[2] <= c_lo

\* test_choc_zone_interaction / test_bos_zone_interaction: the returned pair
ZoneTest(zones, zone, seg_dir, close_price) ==
    IF zone = Nil THEN Nil
    ELSE [ok |-> TestZoneExit(zone, seg_dir, close_price) /\ ZoneClearence(zones, seg_dir, zone),
          interval |-> zone.interval]

\* Advisor.test_choc_zone_interaction
TestChocZoneInteraction(opts, zones, seg_dir, segment_range, close_price) ==
    LET level == IF seg_dir = UP THEN segment_range.highest ELSE segment_range.lowest
        zone == IF opts.sr_zone_interaction = "TOUCH" THEN InZone(zones, level)
                ELSE IF opts.sr_zone_interaction = "PROXIMITY"
                THEN AroundZone(zones, seg_dir, level)
                ELSE Nil
    IN  ZoneTest(zones, zone, seg_dir, close_price)

\* Advisor.test_bos_zone_interaction
TestBosZoneInteraction(opts, zones, seg_dir, key_low, key_high, close_price) ==
    LET bos_seg_dir == IF seg_dir = DOWN THEN UP ELSE DOWN
        level == IF seg_dir = UP THEN key_low ELSE key_high
        zone == IF opts.sr_zone_interaction = "TOUCH" THEN InZone(zones, level)
                ELSE IF opts.sr_zone_interaction = "PROXIMITY"
                THEN AroundZone(zones, bos_seg_dir, level)
                ELSE Nil
    IN  ZoneTest(zones, zone, bos_seg_dir, close_price)

\* generate_positions: a long order with the stop below the level sl_level
LongOrder(opts, closing_price, sl_level, balance) ==
    LET sl == sl_level - Times(closing_price - sl_level, sl_level_margin)
        tp == IF opts.reward_ratio = NoRatio THEN None
              ELSE closing_price + Times(closing_price - sl, opts.reward_ratio)
    IN  BuildPosition(BUY, closing_price, sl, tp, balance, opts.reward_ratio)

\* generate_positions: a short order with the stop above the level sl_level
ShortOrder(opts, closing_price, sl_level, balance) ==
    LET sl == sl_level + Times(sl_level - closing_price, sl_level_margin)
        tp == IF opts.reward_ratio = NoRatio THEN None
              ELSE closing_price - Times(sl - closing_price, opts.reward_ratio)
    IN  BuildPosition(SELL, closing_price, sl, tp, balance, opts.reward_ratio)

\* what generate_positions hands back: the order, the advisor and an exception flag
Generated(order, adv) == [trade |-> order.order, advisor |-> adv, err |-> order.err]

NoTrade(adv) == [trade |-> Nil, advisor |-> adv, err |-> FALSE]

\* in_zone / around_zone iterate over sr_zones: a TypeError when it is None
ZoneTestRaises(opts, sig) ==
    sig.sr_zones_none /\ opts.sr_zone_interaction \in {"TOUCH", "PROXIMITY"}

Raised(adv) == [trade |-> Nil, advisor |-> adv, err |-> TRUE]

\* the level the stop starts from
LowStop(opts, low) ==
    IF opts.sl_level = "KEY_LEVEL" THEN low.key_levels.low ELSE low.segment_range.lowest

HighStop(opts, low) ==
    IF opts.sl_level = "KEY_LEVEL" THEN low.key_levels.high ELSE low.segment_range.highest

\* generate_positions: the trend test on the mid and high timeframes
TrendIs(dir, sig, opts) ==
    LET with(s) == s.seg_dir = dir \/ (s.seg_dir = (IF dir = UP THEN DOWN ELSE UP) /\ s.choc)
    IN  with(sig.pst_mid) /\ (with(sig.pst_high) \/ opts.exclude_high_trend)

\* Advisor.generate_positions, case "SIMPLE_TREND"; adv has the ChOC latch reset
SimpleTrend(adv, opts, closing_price, balance, sig) ==
    LET low == sig.pst_low
        expired == [adv EXCEPT !.choc_expired = TRUE]
    IN  IF TrendIs(UP, sig, opts)
        THEN IF opts.entry = "CHOC_CONFIRMED"
             THEN IF low.choc_confirmed /\ low.seg_dir = DOWN
                  THEN Generated(LongOrder(opts, closing_price, LowStop(opts, low), balance), adv)
                  ELSE NoTrade(adv)
             ELSE IF opts.entry = "CHOC"
             THEN IF low.choc /\ ~adv.choc_expired /\ low.seg_dir = DOWN
                  THEN Generated(LongOrder(opts, closing_price, LowStop(opts, low), balance), expired)
                  ELSE NoTrade(adv)
             ELSE NoTrade(adv)
        ELSE IF TrendIs(DOWN, sig, opts)
        THEN IF opts.entry = "CHOC_CONFIRMED"
             THEN IF low.choc_confirmed /\ low.seg_dir = UP
                  THEN Generated(ShortOrder(opts, closing_price, HighStop(opts, low), balance), adv)
                  ELSE NoTrade(adv)
             ELSE IF opts.entry = "CHOC"
             THEN IF low.choc /\ ~adv.choc_expired /\ low.seg_dir = UP
                  THEN Generated(ShortOrder(opts, closing_price, HighStop(opts, low), balance), expired)
                  ELSE NoTrade(adv)
             ELSE NoTrade(adv)
        ELSE NoTrade(adv)

\* generate_positions, case "PRICE_ACTION": the BOS entry
PriceActionBos(adv, opts, closing_price, balance, sig) ==
    LET low == sig.pst_low
        expired == [adv EXCEPT !.bos_expired = TRUE]
        trade_zone == TestBosZoneInteraction(opts, sig.sr_zones, low.seg_dir,
                                             low.key_levels.low, low.key_levels.high,
                                             closing_price)
        all(dir) == low.seg_dir = dir /\ sig.pst_mid.seg_dir = dir /\ sig.pst_high.seg_dir = dir
    IN  IF low.in_bos /\ opts.entry \in {"CHOC+BOS", "CHOC_CONFIRMED+BOS"} /\ ~adv.bos_expired
        THEN IF ZoneTestRaises(opts, sig) THEN Raised(expired)
             ELSE IF trade_zone # Nil /\ trade_zone.ok
             THEN IF all(DOWN)
                  THEN LET sl == IF low.key_levels.high > trade_zone.interval[2]
                                 THEN low.key_levels.high ELSE trade_zone.interval[2]
                       IN  Generated(ShortOrder(opts, closing_price, sl, balance), expired)
                  ELSE IF all(UP)
                  THEN LET sl == IF low.key_levels.low < trade_zone.interval[1]
                                 THEN low.key_levels.low ELSE trade_zone.interval[1]
                       IN  Generated(LongOrder(opts, closing_price, sl, balance), expired)
                  ELSE NoTrade(expired)
             ELSE NoTrade(expired)
        ELSE NoTrade(adv)

\* PRICE_ACTION that burns the ChOC latch only when the SR test lets the
\* candidate through
PriceActionLatchOnEntry(adv, opts, closing_price, balance, sig) ==
    LET low == sig.pst_low
        on_choc == low.choc /\ opts.entry \in {"CHOC", "CHOC+BOS"}
        adv1 == IF on_choc THEN [adv EXCEPT !.choc_expired = TRUE] ELSE adv
        trade_zone == TestChocZoneInteraction(opts, sig.sr_zones, low.seg_dir,
                                              low.segment_range, closing_price)
    IN  IF \/ on_choc /\ ~adv.choc_expired
           \/ low.choc_confirmed /\ opts.entry \in {"CHOC_CONFIRMED", "CHOC_CONFIRMED+BOS"}
        THEN IF ZoneTestRaises(opts, sig) THEN Raised(adv)
             ELSE IF trade_zone # Nil /\ trade_zone.ok
             THEN IF low.seg_dir = UP
                  THEN LET sl == IF HighStop(opts, low) > trade_zone.interval[2]
                                 THEN HighStop(opts, low) ELSE trade_zone.interval[2]
                       IN  Generated(ShortOrder(opts, closing_price, sl, balance), adv1)
                  ELSE LET sl == IF LowStop(opts, low) < trade_zone.interval[1]
                                 THEN LowStop(opts, low) ELSE trade_zone.interval[1]
                       IN  Generated(LongOrder(opts, closing_price, sl, balance), adv1)
             ELSE PriceActionBos(adv, opts, closing_price, balance, sig)
        ELSE PriceActionBos(adv, opts, closing_price, balance, sig)

\* Advisor.generate_positions, case "PRICE_ACTION"; adv has the ChOC latch reset
PriceAction(adv, opts, closing_price, balance, sig) ==
    LET low == sig.pst_low
        on_choc == low.choc /\ opts.entry \in {"CHOC", "CHOC+BOS"}
        adv1 == IF on_choc THEN [adv EXCEPT !.choc_expired = TRUE] ELSE adv
        trade_zone == TestChocZoneInteraction(opts, sig.sr_zones, low.seg_dir,
                                              low.segment_range, closing_price)
    IN  IF \/ on_choc /\ ~adv.choc_expired
           \/ low.choc_confirmed /\ opts.entry \in {"CHOC_CONFIRMED", "CHOC_CONFIRMED+BOS"}
        THEN IF ZoneTestRaises(opts, sig) THEN Raised(adv1)
             ELSE IF trade_zone # Nil /\ trade_zone.ok
             THEN IF low.seg_dir = UP
                  THEN LET sl == IF HighStop(opts, low) > trade_zone.interval[2]
                                 THEN HighStop(opts, low) ELSE trade_zone.interval[2]
                       IN  Generated(ShortOrder(opts, closing_price, sl, balance), adv1)
                  ELSE LET sl == IF LowStop(opts, low) < trade_zone.interval[1]
                                 THEN LowStop(opts, low) ELSE trade_zone.interval[1]
                       IN  Generated(LongOrder(opts, closing_price, sl, balance), adv1)
             ELSE PriceActionBos(adv1, opts, closing_price, balance, sig)
        ELSE PriceActionBos(adv, opts, closing_price, balance, sig)

\* generate_positions with the ChOC latch reset on every candle
GeneratePositionsAlwaysReset(adv, opts, closing_price, balance, sig) ==
    LET adv0 == [adv EXCEPT !.choc_expired = FALSE]
    IN  IF opts.strategy = "SIMPLE_TREND"
        THEN SimpleTrend(adv0, opts, closing_price, balance, sig)
        ELSE IF opts.strategy = "PRICE_ACTION"
        THEN PriceAction(adv0, opts, closing_price, balance, sig)
        ELSE NoTrade(adv0)

\* Advisor.generate_positions
GeneratePositions(adv, opts, closing_price, balance, sig) ==
    LET adv0 == IF ~sig.pst_low.choc THEN [adv EXCEPT !.choc_expired = FALSE] ELSE adv
    IN  IF opts.strategy = "SIMPLE_TREND"
        THEN SimpleTrend(adv0, opts, closing_price, balance, sig)
        ELSE IF opts.strategy = "PRICE_ACTION"
        THEN PriceAction(adv0, opts, closing_price, balance, sig)
        ELSE NoTrade(adv0)

\* generate_positions took the ChOC entry (animus.py 101-107, 128-134,
\* 141-174) under entry option "CHOC": it returned an order, or it set the
\* latch that was clear after the reset of lines 78-79
ChocEntryTaken(adv, opts, sig, gen) ==
    /\ opts.entry = "CHOC"
    /\ sig.pst_low.choc
    /\ \/ gen.trade # Nil
       \/ gen.advisor.choc_expired /\ ~adv.choc_expired

\* modify_positions that closes the positions of the low segment's reversal
\* direction: SELL in an UP segment, BUY in a DOWN segment
ModifyPositionsCloseReversed(adv, opts, sig) ==
    LET low == sig.pst_low
        adv0 == IF ~low.in_bos THEN [adv EXCEPT !.bos_expired = FALSE] ELSE adv
        close(type) == [action |-> "CLOSE", position_type |-> type, instr |-> instr]
        closes ==
            IF opts.exit = "CHOC_CONFIRMED"
            THEN IF low.choc_confirmed /\ low.seg_dir = UP THEN <<close(SELL)>>
                 ELSE IF low.choc_confirmed /\ low.seg_dir = DOWN THEN <<close(BUY)>>
                 ELSE <<>>
            ELSE IF opts.exit = "CHOC"
            THEN (IF low.choc /\ low.seg_dir = UP THEN <<close(SELL)>> ELSE <<>>)
                 \o (IF low.choc /\ low.seg_dir = DOWN THEN <<close(BUY)>> ELSE <<>>)
            ELSE <<>>
    IN  IF low.in_bos /\ ~adv0.mods_bos_expired
        THEN [actions |-> Append(closes,
                  [action |-> "MOVE_SL",
                   position_type |-> IF low.seg_dir = DOWN THEN SELL ELSE BUY,
                   instr |-> instr,
                   new_sl_target |-> IF low.seg_dir = DOWN THEN low.key_levels.high
                                     ELSE low.key_levels.low]),
              advisor |-> [adv0 EXCEPT !.mods_bos_expired = TRUE]]
        ELSE [actions |-> closes, advisor |-> adv0]

\* Advisor.modify_positions: [actions, advisor]
ModifyPositions(adv, opts, sig) ==
    LET low == sig.pst_low
        adv0 == IF ~low.in_bos THEN [adv EXCEPT !.bos_expired = FALSE] ELSE adv
        close(type) == [action |-> "CLOSE", position_type |-> type, instr |-> instr]
        closes ==
            IF opts.exit = "CHOC_CONFIRMED"
            THEN IF low.choc_confirmed /\ low.seg_dir = UP THEN <<close(BUY)>>
                 ELSE IF low.choc_confirmed /\ low.seg_dir = DOWN THEN <<close(SELL)>>
                 ELSE <<>>
            ELSE IF opts.exit = "CHOC"
            THEN (IF low.choc /\ low.seg_dir = UP THEN <<close(BUY)>> ELSE <<>>)
                 \o (IF low.choc /\ low.seg_dir = DOWN THEN <<close(SELL)>> ELSE <<>>)
            ELSE <<>>
    IN  IF low.in_bos /\ ~adv0.mods_bos_expired
        THEN [actions |-> Append(closes,
                  [action |-> "MOVE_SL",
                   position_type |-> IF low.seg_dir = DOWN THEN SELL ELSE BUY,
                   instr |-> instr,
                   new_sl_target |-> IF low.seg_dir = DOWN THEN low.key_levels.high
                                     ELSE low.key_levels.low]),
              advisor |-> [adv0 EXCEPT !.mods_bos_expired = TRUE]]
        ELSE [actions |-> closes, advisor |-> adv0]

\* ------------------------------------------------------------------ state
VARIABLES
    segments,       \* Kraken._segments: level -> list of PrimarySegment
    sr_segments,    \* SR_Structure._segments: SR level -> list of PrimarySegment
    fed,            \* candles fed so far (the next candle's timestamp)
    last_close,     \* close of the latest candle fed (None before the first)
    gap_free,       \* every candle so far opened at the close of the one before
    raw_sr_zones,   \* SR_Structure._raw_sr_zones
    aggr_sr_zones,  \* SR_Structure._aggr_sr_zones
    sr_mode,        \* SR_Structure._mode
    sr_pc,          \* last SR_Structure method run: "new", "compiled", "processed"
    compiles,       \* calls of compile_zones so far
    account,        \* the simulated Account
    positions,      \* account.positions
    status,         \* run_backtest: "new", "running", or "aborted" by an exception
    pst_iloc,       \* Animus._pst_iloc
    row,            \* the low-TF row of the latest candle step (Nil before it)
    trade,          \* the order generate_positions returned in the latest step
    mods,           \* the actions modify_positions returned in the latest step
    advisor,        \* the Advisor's latches
    options,        \* the strategy and options run_backtest was called with
    history,        \* per candle step: low.in_bos and low.choc as signalled, whether MOVE_SL
                    \* was emitted, whether the ChOC entry was taken
    sizing,         \* a call of build_position on its own: its arguments and what it
                    \* returned (Nil before the call)
    replay          \* two runs of a fresh Kraken: over one candle stream, or over a
                    \* stream and its price mirror

pstVars == <<segments, sr_segments, fed, last_close, gap_free>>
srVars == <<raw_sr_zones, aggr_sr_zones, sr_mode, sr_pc, compiles>>
btVars == <<account, positions, status, pst_iloc, row, trade, mods, advisor, options, history,
            sizing>>
vars == <<pstVars, srVars, btVars, replay>>

\* Kraken.__init__
KrakenSegmentsInit ==
    [l \in {"low", "mid", "high"} |->
        <<FirstSegment(CASE l = "low" -> "LOW T-FRAME" [] l = "mid" -> "MID T-FRAME" [] l = "high" -> "HIGH T-FRAME")>>]

\* SR_Structure.__init__ / reset_segments
SRSegmentsInit == [l \in {"low", "high"} |-> <<FirstSegment(IF l = "low" THEN "T1" ELSE "T2")>>]

\* no replay under way
NoReplay ==
    LET none == [segments |-> <<>>, seg_ids |-> <<>>, signals |-> <<>>]
    IN  [a |-> none, b |-> none]

\* the candle stream before its first row
StreamInit ==
    /\ fed = 0
    /\ last_close = None
    /\ gap_free = TRUE

\* SR_Structure.__init__: the zone lists
ZonesInit(mode) ==
    /\ raw_sr_zones = <<>>
    /\ aggr_sr_zones = <<>>
    /\ sr_mode = mode
    /\ sr_pc = "new"
    /\ compiles = 0

\* config.py: strategy and options
ConfigOptions ==
    [strategy |-> "PRICE_ACTION", entry |-> "CHOC", exit |-> "CHOC_CONFIRMED",
     sl_level |-> "KEY_LEVEL", reward_ratio |-> NoRatio, compound_risk |-> FALSE,
     exclude_high_trend |-> FALSE, sr_zone_interaction |-> "PROXIMITY",
     move_sl |-> [allow |-> TRUE], sr_files |-> TRUE]

\* before run_backtest is called with the options opts
BacktestInitWith(st, opts) ==
    /\ account = Account(InitialBalance)
    /\ positions = <<>>
    /\ status = st
    /\ pst_iloc = 0
    /\ row = Nil
    /\ trade = Nil
    /\ mods = <<>>
    /\ advisor = AdvisorInit
    /\ options = opts
    /\ history = <<>>
    /\ sizing = Nil

BacktestInit(st) == BacktestInitWith(st, ConfigOptions)

InitPST ==
    /\ segments = KrakenSegmentsInit
    /\ sr_segments = SRSegmentsInit
    /\ StreamInit
    /\ ZonesInit(WICK)
    /\ BacktestInit("new")
    /\ replay = NoReplay

\* The candle stream as the caller hands it over, one row after the other.
FeedStream(shape) ==
    /\ fed' = fed + 1
    /\ last_close' = shape.close
    /\ gap_free' = (gap_free /\ (last_close = None \/ shape.open = last_close))

\* process_candle(level, ...) reads and writes the list of its level only, so a
\* behaviour of the detector specification feeds one list: the others are
\* still as constructed.
OnlyKrakenLevelFed(level) ==
    /\ sr_segments = SRSegmentsInit
    /\ \A l \in DOMAIN segments : l # level => segments[l] = KrakenSegmentsInit[l]

OnlySRLevelFed(level) ==
    /\ segments = KrakenSegmentsInit
    /\ \A l \in DOMAIN sr_segments : l # level => sr_segments[l] = SRSegmentsInit[l]

\* Kraken.process_candle(level, candle)
ProcessCandle(level, shape) ==
    /\ fed < MaxCandles
    /\ OnlyKrakenLevelFed(level)
    /\ ~Last(segments[level]).type_error
    /\ segments' = [segments EXCEPT ![level] = KrakenProcessCandle(@, Candle(fed, shape))]
    /\ FeedStream(shape)
    /\ UNCHANGED <<sr_segments, srVars, btVars, replay>>

\* SR_Structure.process_candle(level, candle)
SRStructureProcessCandle(level, shape) ==
    /\ fed < MaxCandles
    /\ OnlySRLevelFed(level)
    /\ ~Last(sr_segments[level]).type_error
    /\ sr_segments' = [sr_segments EXCEPT ![level] = SRProcessCandle(@, Candle(fed, shape))]
    /\ FeedStream(shape)
    /\ UNCHANGED <<segments, srVars, btVars, replay>>

\* The levels the detector specification feeds: the code is the same for every
\* level, and the lists differ by their time_frame tag only.
FedPSTLevels == {"low"}
FedSRLevels == {"low"}

NextPST ==
    \/ \E level \in FedPSTLevels, shape \in CandleShapes : ProcessCandle(level, shape)
    \/ \E level \in FedSRLevels, shape \in CandleShapes : SRStructureProcessCandle(level, shape)

SpecPST == InitPST /\ [][NextPST]_vars

\* --------------------------------------------------- zone specification
ZONING_MODES == {NoMode, CANDLE, BODY, WICK}

\* The raw zones compile_zones can produce from candles of the SR data.
RawZoneKinds ==
    { RSR_Zone(dir, Candle(x, shape)) :
        dir \in {UP, DOWN}, x \in 1..MaxZoneTime,
        shape \in CandleShapesOver(1..MaxZonePrice) }

\* The zones of one SR level: one per segment after the first, so later in
\* time and of the opposite type from one zone to the next.
LevelZoneLists ==
    UNION { { z \in [1..n -> RawZoneKinds] :
                \A i \in 1..(n - 1) : z[i].x < z[i + 1].x /\ z[i].type # z[i + 1].type } :
            n \in 0..MaxZoneTime }

\* compile_zones: the zones of level "low", then those of level "high"
RawZoneLists ==
    { lh[1] \o lh[2] :
        lh \in { p \in LevelZoneLists \X LevelZoneLists : Len(p[1]) + Len(p[2]) <= MaxRawZones } }

InitSR ==
    /\ segments = KrakenSegmentsInit
    /\ sr_segments = SRSegmentsInit
    /\ StreamInit
    /\ \E mode \in ZONING_MODES : ZonesInit(mode)
    /\ BacktestInit("new")
    /\ replay = NoReplay

\* SR_Structure.compile_zones: the raw list is replaced by the zones of the
\* segments' extreme candles
CompileZones ==
    /\ compiles < MaxCompiles
    /\ \E raws \in RawZoneLists : raw_sr_zones' = raws
    /\ sr_pc' = "compiled"
    /\ compiles' = compiles + 1
    /\ UNCHANGED <<aggr_sr_zones, sr_mode, pstVars, btVars, replay>>

\* SR_Structure.process_zones
ProcessZonesCall ==
    /\ aggr_sr_zones' = ProcessZones(aggr_sr_zones, raw_sr_zones, sr_mode)
    /\ sr_pc' = "processed"
    /\ UNCHANGED <<raw_sr_zones, sr_mode, compiles, pstVars, btVars, replay>>

NextSR ==
    \/ CompileZones
    \/ ProcessZonesCall

SpecSR == InitSR /\ [][NextSR]_vars

\* ----------------------------------------------- the zones of the segments
\* compile_zones over the segments the SR structure has built from the
\* candles fed to it.

\* compile_zones that also reads the first segment of a level
CompiledSegmentsWithFirst(segs) == segs

\* compile_zones: "for segment in self._segments[level][1:]"
CompiledSegments(segs) == SubSeq(segs, 2, Len(segs))

\* self._sr_data[level].loc[segment.highest_candle] / .loc[segment.lowest_candle]:
\* the rows the candle at the segment's extreme can be, given the segment
AnchorCandles(seg) ==
    { Candle(IF seg.dir = UP THEN seg.highest_candle ELSE seg.lowest_candle, shape) :
        shape \in { s \in CandleShapes :
                      /\ seg.segment_low <= s.low /\ s.high <= seg.segment_high
                      /\ IF seg.dir = UP THEN s.high = seg.segment_high
                         ELSE s.low = seg.segment_low } }

\* compile_zones, the body of its inner loop: the zone of one segment, none
\* for a segment without direction
SegmentZones(seg) ==
    IF seg.dir = UNDETERMINED THEN { <<>> }
    ELSE { <<RSR_Zone(seg.dir, c)>> : c \in AnchorCandles(seg) }

\* compile_zones, its inner loop over the segments of one level from i on
RECURSIVE LevelZonesFrom(_, _)
LevelZonesFrom(segs, i) ==
    IF i > Len(segs) THEN { <<>> }
    ELSE { z \o rest : z \in SegmentZones(segs[i]), rest \in LevelZonesFrom(segs, i + 1) }

\* SR_Structure.compile_zones on the structure's segments
CompileZonesOfSegments ==
    /\ compiles < MaxCompiles
    /\ \E lows \in LevelZonesFrom(CompiledSegments(sr_segments.low), 1),
          highs \in LevelZonesFrom(CompiledSegments(sr_segments.high), 1) :
          raw_sr_zones' = lows \o highs
    /\ sr_pc' = "compiled"
    /\ compiles' = compiles + 1
    /\ UNCHANGED <<aggr_sr_zones, sr_mode, pstVars, btVars, replay>>

NextCompile ==
    \/ \E level \in FedSRLevels, shape \in CandleShapes : SRStructureProcessCandle(level, shape)
    \/ CompileZonesOfSegments

SpecCompile == InitPST /\ [][NextCompile]_vars

\* Two zones share more than a boundary point.
Overlap(a, b) == a.interval[1] < b.interval[2] /\ b.interval[1] < a.interval[2]

\* C10: after process_zones, any two aggregated SR zones are disjoint, for
\* every raw-zone list in every zoning mode.
C10_AggregatesDisjoint ==
    sr_pc = "processed" =>
        \A i, j \in 1..Len(aggr_sr_zones) :
            i < j => ~Overlap(aggr_sr_zones[i], aggr_sr_zones[j])

\* ------------------------------------------------ account specification
\* The candle step of run_backtest on the account, for every order and every
\* list of actions an advisor can hand over.

\* a row of the low-TF data, in points
Row(shape) ==
    [open |-> shape.open * PriceScale, high |-> shape.high * PriceScale,
     low |-> shape.low * PriceScale, close |-> shape.close * PriceScale]

\* rows that have a range and close where they opened, at their low or high
AccountRows ==
    { Row(s) : s \in { c \in CandleShapesOver(1..MaxRowPrice) :
                          /\ c.open = c.close /\ c.low < c.high
                          /\ c.close \in {c.low, c.high} } }

\* distance of a stop and of a target from the closing price, in points
StopDistance == PriceScale
TargetDistances == {PriceScale}

\* build_position for a stop sd and a target td (or no target) away from cp;
\* a negative sd puts the stop on the wrong side of the price
OrderFor(type, cp, sd, td) ==
    BuildPosition(type, cp,
                  IF type = BUY THEN cp - sd ELSE cp + sd,
                  IF td = None THEN None ELSE IF type = BUY THEN cp + td ELSE cp - td,
                  InitialBalance, NoRatio).order

\* the orders build_position can return at closing price cp
OrdersAt(cp) ==
    {Nil}
    \cup { OrderFor(type, cp, StopDistance, td) :
             type \in {BUY, SELL}, td \in {None} \cup TargetDistances }
    \cup { OrderFor(type, cp, 0 - StopDistance, None) : type \in {BUY, SELL} }

CloseAction(type) == [action |-> "CLOSE", position_type |-> type, instr |-> instr]

MoveSlAction(type, target) ==
    [action |-> "MOVE_SL", position_type |-> type, instr |-> instr, new_sl_target |-> target]

\* key levels handed over as new_sl_target
SlTargets == { 2 * PriceScale }

\* the action lists modify_positions can return: at most one CLOSE, then at
\* most one MOVE_SL, both for the position type of the low segment's direction
ActionLists ==
    {<<>>} \cup
    UNION { { <<CloseAction(type)>>, <<MoveSlAction(type, target)>>,
              <<CloseAction(type), MoveSlAction(type, target)>> } :
            type \in {BUY, SELL}, target \in SlTargets }

InitAccount ==
    /\ segments = KrakenSegmentsInit
    /\ sr_segments = SRSegmentsInit
    /\ StreamInit
    /\ ZonesInit(WICK)
    /\ BacktestInit("running")
    /\ replay = NoReplay

\* the row index of the next candle step
NextIloc == IF row = Nil THEN pst_iloc ELSE pst_iloc + 1

\* the orders generate_positions hands over, by closing price
AccountOrders == [cp \in { r.close : r \in AccountRows } |-> OrdersAt(cp)]

\* run_backtest, lines 641-722 of one candle step, of a run of so many steps
\* over the given rows, orders (by closing price) and action lists
AccountCandleStepOver(steps, rows, orders, lists) ==
    /\ status = "running"
    /\ NextIloc < steps
    /\ \E r \in rows :
         \E order \in orders[r.close], actions \in lists :
            LET bk == AccountStep([account |-> account, positions |-> positions, err |-> FALSE],
                                  order, actions, NextIloc, r, options)
            IN  /\ account' = bk.account
                /\ positions' = bk.positions
                /\ status' = IF bk.err THEN "aborted" ELSE "running"
                /\ pst_iloc' = NextIloc
                /\ row' = r
                /\ trade' = order
                /\ mods' = actions
    /\ UNCHANGED <<pstVars, srVars, advisor, options, history, sizing, replay>>

AccountCandleStep ==
    AccountCandleStepOver(MaxAccountSteps, AccountRows, AccountOrders, ActionLists)

NextAccount == AccountCandleStep

SpecAccount == InitAccount /\ [][NextAccount]_vars

\* ------------------------------------------------------- the stop moves
\* run_backtest's candle step over MOVE_SL actions whose targets lie within
\* the margin of an entry price, between the prices and beyond the close,
\* with move_sl.allow set and cleared.

\* orders with a stop on the losing side and no target
StopOrders ==
    [cp \in { r.close : r \in AccountRows } |->
        {Nil} \cup { OrderFor(type, cp, StopDistance, None) : type \in {BUY, SELL} }]

\* key levels handed over as new_sl_target: half a margin above the lowest
\* price, a price between, half a margin below the highest price, and a
\* margin above it
StopTargets ==
    { PriceScale + PriceScale \div 20,
      2 * PriceScale,
      MaxRowPrice * PriceScale - PriceScale \div 20,
      MaxRowPrice * PriceScale + PriceScale \div 10 }

StopActionLists ==
    {<<>>} \cup { <<MoveSlAction(type, target)>> : type \in {BUY, SELL}, target \in StopTargets }

InitStops ==
    /\ segments = KrakenSegmentsInit
    /\ sr_segments = SRSegmentsInit
    /\ StreamInit
    /\ ZonesInit(WICK)
    /\ \E allow \in BOOLEAN :
         BacktestInitWith("running", [ConfigOptions EXCEPT !.move_sl.allow = allow])
    /\ replay = NoReplay

StopCandleStep ==
    AccountCandleStepOver(MaxStopSteps, AccountRows, StopOrders, StopActionLists)

NextStops == StopCandleStep

SpecStops == InitStops /\ [][NextStops]_vars

\* ------------------------------------------------------- the order sizing
\* build_position on its own: balances of 1..MaxSizingBalance currency units,
\* a closing price of MaxSizingRisk points and stops up to MaxSizingRisk points
\* either side of it.
SizingBalances == { b * MoneyScale : b \in 1..MaxSizingBalance }

SizingClose == MaxSizingRisk

SizingStops == 0..(2 * MaxSizingRisk)

InitSizing ==
    /\ segments = KrakenSegmentsInit
    /\ sr_segments = SRSegmentsInit
    /\ StreamInit
    /\ ZonesInit(WICK)
    /\ BacktestInit("new")
    /\ replay = NoReplay

\* Advisor.build_position called with a type, a closing price, a stop and a
\* balance, without a reward ratio
BuildPositionCall ==
    /\ sizing = Nil
    /\ \E type \in {BUY, SELL}, sl \in SizingStops, balance \in SizingBalances :
          sizing' = [type |-> type, closing_price |-> SizingClose, sl |-> sl,
                     balance |-> balance,
                     result |-> BuildPosition(type, SizingClose, sl, None, balance, NoRatio)]
    /\ UNCHANGED <<pstVars, srVars, account, positions, status, pst_iloc, row, trade, mods,
                   advisor, options, history, replay>>

NextSizing == BuildPositionCall

SpecSizing == InitSizing /\ [][NextSizing]_vars

\* ------------------------------------------------------- the back test
\* run_backtest from its call to the end of the low-TF rows.

\* get_pst_level_ratios: low-TF rows per row of each level
PstLevelRatio == [low |-> 1, mid |-> 2, high |-> 2]

\* options["sr_refresh_window"], passed as sr_pst_cycle
sr_refresh_window == 250

\* rows of the low-TF file: no wicks
DriverShapes ==
    { s \in CandleShapesOver(1..MaxDriverPrice) :
        /\ s.low \in {s.open, s.close} /\ s.high \in {s.open, s.close} }

\* rows of the mid- and high-TF files: one rising, one falling
HigherShapes == { s \in DriverShapes : s.open = 2 /\ s.close # 2 }

\* the strategies and options of a run
OptionSets ==
    { ConfigOptions,
      [ConfigOptions EXCEPT !.strategy = "SIMPLE_TREND", !.exit = "CHOC"],
      [ConfigOptions EXCEPT !.strategy = "SIMPLE_TREND", !.entry = "CHOC_CONFIRMED"],
      [ConfigOptions EXCEPT !.entry = "CHOC_CONFIRMED+BOS", !.exit = "CHOC"],
      [ConfigOptions EXCEPT !.entry = "CHOC+BOS"],
      [ConfigOptions EXCEPT !.sr_files = FALSE],
      [ConfigOptions EXCEPT !.strategy = "SIMPLE_TREND", !.exit = "CHOC",
                            !.sr_files = FALSE] }

\* candles of the SR files at a segment's extreme: they have a range and close
\* where they opened
DriverSRShapes ==
    { s \in CandleShapesOver({2, 2 * MaxDriverPrice}) : s.open = s.close /\ s.low < s.high }

\* compile_zones over the rows of the SR look-back window, which is empty at row 0
DriverRawLists(iloc) ==
    IF iloc = 0 THEN { <<>> }
    ELSE UNION { [1..n -> { RSR_Zone(dir, Candle(0, Row(s))) :
                             dir \in {UP, DOWN}, s \in DriverSRShapes }] :
                 n \in 0..MaxDriverZones }

\* Kraken.initialize_new_zones: compile_zones, then process_zones
InitializeNewZones(raws) ==
    /\ raw_sr_zones' = raws
    /\ aggr_sr_zones' = ProcessZones(aggr_sr_zones, raws, sr_mode)
    /\ sr_pc' = "processed"
    /\ compiles' = compiles + 1

\* Kraken.initialize: the rows of one level, in order, up to the first row
\* whose add_candle raises
RECURSIVE FeedRows(_, _, _)
FeedRows(segs, shapes, i) ==
    IF i > Len(shapes) \/ Last(segs).type_error THEN segs
    ELSE FeedRows(KrakenProcessCandle(segs, Candle(i - 1, Row(shapes[i]))), shapes, i + 1)

\* a comparison with None in add_candle has raised TypeError
TypeError(segs) == \E l \in DOMAIN segs : Last(segs[l]).type_error

Init ==
    /\ segments = KrakenSegmentsInit
    /\ sr_segments = SRSegmentsInit
    /\ StreamInit
    /\ ZonesInit(WICK)
    /\ \E opts \in OptionSets : BacktestInitWith("new", opts)
    /\ replay = NoReplay

\* run_backtest, lines 520-580: the warm-up rows before the row it starts at
\* go through Kraken.initialize, the SR window is zoned, the advisor and the
\* account are created
RunBacktestFrom(starts, shapes) ==
    /\ status = "new"
    /\ \E start \in starts :
         \E lows \in [1..start -> shapes],
            mids \in [1..(start \div PstLevelRatio.mid) -> HigherShapes],
            highs \in [1..(start \div PstLevelRatio.high) -> HigherShapes],
            raws \in (IF options.sr_files THEN DriverRawLists(start) ELSE { <<>> }) :
            LET low == FeedRows(segments.low, lows, 1)
                mid == IF Last(low).type_error THEN segments.mid
                       ELSE FeedRows(segments.mid, mids, 1)
                high == IF Last(low).type_error \/ Last(mid).type_error THEN segments.high
                        ELSE FeedRows(segments.high, highs, 1)
                segs == [low |-> low, mid |-> mid, high |-> high]
            IN  /\ segments' = segs
                /\ IF options.sr_files THEN InitializeNewZones(raws)
                   ELSE UNCHANGED <<raw_sr_zones, aggr_sr_zones, sr_pc, compiles>>
                /\ pst_iloc' = start
                /\ status' = IF TypeError(segs) THEN "aborted" ELSE "running"
    /\ advisor' = AdvisorInit
    /\ account' = Account(InitialBalance)
    /\ UNCHANGED <<sr_segments, sr_mode, fed, last_close, gap_free,
                   positions, row, trade, mods, options, history, sizing, replay>>

RunBacktestStart == RunBacktestFrom(0..MaxWarmUp, DriverShapes)

\* the candle of a level at the low-TF row iloc
LevelCandle(level, iloc, shape) == Candle(iloc \div PstLevelRatio[level], Row(shape))

\* a feed that hands every higher level its row at every row of the low level
HigherLevelAlwaysDue(level, iloc) == TRUE

\* run_backtest, line 599: "elif self._pst_iloc % self._pst_level_ratios[level] == 0"
HigherLevelDue(level, iloc) == iloc % PstLevelRatio[level] = 0

\* run_backtest, lines 592-604: the row goes to the low level, and then the
\* row of a higher level goes to it when iloc is a multiple of its ratio; an
\* add_candle that raises ends the feed
FeedLevels(segs, iloc, low, mid, high) ==
    LET fed_low == [segs EXCEPT !.low = KrakenProcessCandle(@, LevelCandle("low", iloc, low))]
        fed_mid == IF ~Last(fed_low.low).type_error /\ HigherLevelDue("mid", iloc)
                   THEN [fed_low EXCEPT !.mid = KrakenProcessCandle(@, LevelCandle("mid", iloc, mid))]
                   ELSE fed_low
    IN  IF ~TypeError(fed_mid) /\ HigherLevelDue("high", iloc)
        THEN [fed_mid EXCEPT !.high = KrakenProcessCandle(@, LevelCandle("high", iloc, high))]
        ELSE fed_mid

\* the rows a higher level can hand over at iloc
RowsAt(level, iloc) ==
    IF iloc % PstLevelRatio[level] = 0 THEN HigherShapes ELSE { CHOOSE s \in HigherShapes : TRUE }

\* the raw zones initialize_new_zones can compile at iloc, when it is called
RefreshRaws(iloc) ==
    IF iloc % sr_refresh_window = 0 THEN DriverRawLists(iloc) ELSE { <<>> }

\* run_backtest, lines 608-722: signals, advisor and account for the row r,
\* once the candles are in the segments segs and the zones are zones
AdviseAndTrade(segs, zones, iloc, r) ==
    IF TypeError(segs) \/ SignalError(segs)
    THEN /\ status' = "aborted"
         /\ UNCHANGED <<account, positions, trade, mods, advisor, history>>
    ELSE \E sig \in { GetSignalData(segs, zones, options.sr_files) } :
         \E gen \in { GeneratePositions(advisor, options, r.close,
                                        IF options.compound_risk THEN account.balance
                                        ELSE account.initial_balance, sig) } :
            IF gen.err
            THEN /\ status' = "aborted"
                 /\ UNCHANGED <<account, positions, trade, mods, advisor, history>>
            ELSE \E mod \in { ModifyPositions(gen.advisor, options, sig) } :
                 \E bk \in { AccountStep([account |-> account, positions |-> positions,
                                           err |-> FALSE],
                                          gen.trade, mod.actions, iloc, r, options) } :
                    /\ status' = IF bk.err THEN "aborted" ELSE "running"
                    /\ trade' = gen.trade
                    /\ mods' = mod.actions
                    /\ advisor' = mod.advisor
                    /\ account' = bk.account
                    /\ positions' = bk.positions
                    /\ history' = Append(history,
                           [in_bos |-> sig.pst_low.in_bos,
                            move_sl |-> \E a \in 1..Len(mod.actions) :
                                           mod.actions[a].action = "MOVE_SL",
                            choc |-> sig.pst_low.choc,
                            choc_entry |-> ChocEntryTaken(advisor, options, sig, gen)])

\* run_backtest, lines 582-722: one row of the low-TF file
BacktestStepWithin(rows, shapes) ==
    /\ status = "running"
    /\ NextIloc < rows
    /\ \E low \in shapes, mid \in RowsAt("mid", NextIloc), high \in RowsAt("high", NextIloc),
          raws \in RefreshRaws(NextIloc) :
         /\ pst_iloc' = NextIloc
         /\ row' = Row(low)
         /\ IF NextIloc % sr_refresh_window = 0 /\ ~options.sr_files
            THEN \* load_warm_up_data reads self._sr_iloc, never set: AttributeError
                 /\ status' = "aborted"
                 /\ UNCHANGED <<segments, raw_sr_zones, aggr_sr_zones, sr_pc, compiles,
                                account, positions, trade, mods, advisor, history>>
            ELSE /\ segments' = FeedLevels(segments, NextIloc, low, mid, high)
                 /\ IF NextIloc % sr_refresh_window = 0 THEN InitializeNewZones(raws)
                    ELSE UNCHANGED <<raw_sr_zones, aggr_sr_zones, sr_pc, compiles>>
                 /\ AdviseAndTrade(segments', aggr_sr_zones', NextIloc, Row(low))
    /\ UNCHANGED <<sr_segments, sr_mode, fed, last_close, gap_free, options, sizing, replay>>

BacktestStep == BacktestStepWithin(MaxRows, DriverShapes)

Next ==
    \/ RunBacktestStart
    \/ BacktestStep

Spec == Init /\ [][Next]_vars

\* ---------------------------------------------------------------- the feed
\* run_backtest over a longer low-TF file of few candle shapes: which rows
\* of which level reach the segment machines, and when.
MaxFeedWarmUp == 3
MaxFeedRows == 5

\* rows of the low-TF file: one rising, one falling
FeedShapes == { s \in DriverShapes : s.open # s.close /\ s.high < MaxDriverPrice }

FeedStart == RunBacktestFrom(0..MaxFeedWarmUp, FeedShapes)

FeedStep == BacktestStepWithin(MaxFeedRows, FeedShapes)

NextFeed ==
    \/ FeedStart
    \/ FeedStep

SpecFeed == Init /\ [][NextFeed]_vars

\* ------------------------------------------------------------ the refresh
\* Kraken.initialize_new_zones called again and again, as run_backtest does
\* every sr_refresh_window rows.
MaxRefreshes == 2

\* what compile_zones finds in a look-back window: no zone when the window
\* holds no segment after the first, or the zone of its second segment
RefreshRawLists == { <<>> } \cup { <<z>> : z \in RawZoneKinds }

\* Kraken.initialize_new_zones
RefreshZones ==
    /\ compiles < MaxRefreshes
    /\ \E raws \in RefreshRawLists : InitializeNewZones(raws)
    /\ UNCHANGED <<sr_mode, pstVars, btVars, replay>>

NextRefresh == RefreshZones

SpecRefresh == InitSR /\ [][NextRefresh]_vars

\* ------------------------------------------------------------ the replay
\* Two runs over one low-TF candle stream, each with a fresh Kraken.
MaxReplay == 4
MaxUuids == 2

\* str(uuid4()): a random identifier
Uuid4 == 1..MaxUuids

\* Kraken.__init__: the first low-TF segment and its seg_id
NewRun(id) ==
    [segments |-> <<FirstSegment("LOW T-FRAME")>>, seg_ids |-> <<id>>, signals |-> <<>>]

\* Kraken.add_candle on the low level, then get_signal_data: id is the uuid4
\* drawn if process_candle appends a segment
RunCandle(run, c, id) ==
    LET segs == KrakenProcessCandle(run.segments, c)
        ids == IF Len(segs) > Len(run.segments) THEN Append(run.seg_ids, id)
               ELSE run.seg_ids
    IN  [segments |-> segs, seg_ids |-> ids,
         signals |-> Append(run.signals,
                            [seg_id |-> Last(ids), pst_low |-> LevelSignal(Last(segs))])]

InitReplay ==
    /\ segments = KrakenSegmentsInit
    /\ sr_segments = SRSegmentsInit
    /\ StreamInit
    /\ ZonesInit(WICK)
    /\ BacktestInit("new")
    /\ \E ida \in Uuid4, idb \in Uuid4 : replay = [a |-> NewRun(ida), b |-> NewRun(idb)]

\* both runs receive the same candle
ReplayCandle ==
    /\ Len(replay.a.signals) < MaxReplay
    /\ \E shape \in DriverShapes, ida \in Uuid4, idb \in Uuid4 :
          LET c == Candle(Len(replay.a.signals), Row(shape))
          IN  replay' = [a |-> RunCandle(replay.a, c, ida), b |-> RunCandle(replay.b, c, idb)]
    /\ UNCHANGED <<pstVars, srVars, btVars>>

NextReplay == ReplayCandle

SpecReplay == InitReplay /\ [][NextReplay]_vars

\* ------------------------------------------------------------ the mirror
\* A run of the low-TF segment machine over a candle stream next to a run
\* over the price-mirrored stream.
MaxMirror == 3

\* a price under the mirror; None stays None
MirrorPrice(p) == IF p = None THEN None ELSE 0 - p

\* the candle with its prices negated, so that highs and lows change places
MirrorCandle(c) ==
    [timestamp |-> c.timestamp, open |-> 0 - c.open, high |-> 0 - c.low,
     low |-> 0 - c.high, close |-> 0 - c.close]

\* candles of the stream: none closes where it opened
MirrorShapes == { s \in CandleShapes : s.close # s.open }

InitMirror ==
    /\ segments = KrakenSegmentsInit
    /\ sr_segments = SRSegmentsInit
    /\ StreamInit
    /\ ZonesInit(WICK)
    /\ BacktestInit("new")
    /\ replay = [a |-> [segments |-> KrakenSegmentsInit.low, seg_ids |-> <<>>, signals |-> <<>>],
                 b |-> [segments |-> KrakenSegmentsInit.low, seg_ids |-> <<>>, signals |-> <<>>]]

\* Kraken.process_candle("low", c) in the one run, and of the mirrored candle
\* in the other
MirrorStep ==
    /\ fed < MaxMirror
    /\ ~Last(replay.a.segments).type_error
    /\ ~Last(replay.b.segments).type_error
    /\ \E shape \in MirrorShapes :
          /\ replay' = [replay EXCEPT
                 !.a.segments = KrakenProcessCandle(@, Candle(fed, shape)),
                 !.b.segments = KrakenProcessCandle(@, MirrorCandle(Candle(fed, shape)))]
          /\ FeedStream(shape)
    /\ UNCHANGED <<segments, sr_segments, srVars, btVars>>

NextMirror == MirrorStep

SpecMirror == InitMirror /\ [][NextMirror]_vars

\* Every segment of every timeframe, of the coordinator and of the SR structure.
AllSegmentLists ==
    { segments[l] : l \in DOMAIN segments } \cup { sr_segments[l] : l \in DOMAIN sr_segments }

AllSegments == UNION { { segs[i] : i \in 1..Len(segs) } : segs \in AllSegmentLists }

LevelsSet(s) ==
    s.segment_low # None /\ s.key_low # None /\ s.key_high # None /\ s.segment_high # None

\* C8 (as stated): for every segment of every timeframe, whenever all four
\* levels are set, segment_low <= key_low <= key_high <= segment_high.
C8_AsStated ==
    \A s \in AllSegments :
        LevelsSet(s) => /\ s.segment_low <= s.key_low
                        /\ s.key_low <= s.key_high
                        /\ s.key_high <= s.segment_high

\* C8 (amended): in the first segment of every timeframe, whenever all four
\* levels are set, segment_low <= key_low and key_high <= segment_high; and
\* while every candle fed so far opened at the close of the one before,
\* key_low <= key_high in every segment.
C8_FirstSegmentLevels ==
    /\ \A segs \in AllSegmentLists :
           LevelsSet(segs[1]) => /\ segs[1].segment_low <= segs[1].key_low
                                 /\ segs[1].key_high <= segs[1].segment_high
    /\ gap_free => \A s \in AllSegments : LevelsSet(s) => s.key_low <= s.key_high

\* A first segment that has seen a pull back and a break of structure, and a
\* gap-free stream that has reached a seeded segment.
C8_Witness ==
    /\ \E segs \in AllSegmentLists :
           /\ segs[1].bos_num > 0
           /\ Len(segs[1].candles) >= 3
           /\ LevelsSet(segs[1])
           /\ segs[1].key_low # segs[1].segment_low
    /\ gap_free

\* C9: every segment of a list except the last one has choc_confirmed, and a
\* segment with choc_confirmed has received no candle after the one that
\* confirmed its ChOC (the coordinator appends a new segment first).
C9_ConfirmedSegmentsClosed ==
    \A segs \in AllSegmentLists :
        /\ \A i \in 1..(Len(segs) - 1) : segs[i].choc_confirmed
        /\ \A i \in 1..Len(segs) :
               segs[i].choc_confirmed =>
                   Last(segs[i].candles) = segs[i].choc_confirm_candle

\* A list whose first segment was confirmed and whose second segment has
\* received a candle.
C9_Witness ==
    \E segs \in AllSegmentLists :
        /\ Len(segs) >= 2
        /\ segs[1].choc_confirmed
        /\ Len(segs[2].candles) >= 1


\* ------------------------------------------------------------ the account
\* a candle step has been taken
Stepped == row # Nil

\* the realized profit of the CLOSED positions from i on, in money
RECURSIVE RealisedFrom(_, _)
RealisedFrom(ps, i) ==
    IF i > Len(ps) THEN 0
    ELSE (IF ps[i].state = CLOSED THEN ps[i].profit * ps[i].vol * ps[i].contract ELSE 0)
         + RealisedFrom(ps, i + 1)

\* C2: after every candle step, whatever orders, SL/TP hits and CLOSE actions
\* came before, the number of OPEN positions is at most max_concurrent_trades.
C2_OpenWithinLimit == CountOpenPositions(positions) <= max_concurrent_trades

\* an order arrives while max_concurrent_trades positions are open and is dropped
C2_Witness ==
    /\ Stepped /\ status = "running"
    /\ trade # Nil
    /\ CountOpenPositions(positions) = max_concurrent_trades
    /\ \A i \in 1..Len(positions) : positions[i].entry_time # pst_iloc

\* C4: after every candle step the balance is the initial balance plus the sum
\* over CLOSED positions of profit (in pips) x volume x contract size; nothing
\* but a realized close changes it.
C4_BalanceIsRealisedProfit ==
    account.balance = account.initial_balance + RealisedFrom(positions, 1)

\* a position was closed away from its entry price while another stays open
C4_Witness ==
    /\ \E i \in 1..Len(positions) : positions[i].state = CLOSED /\ positions[i].profit # 0
    /\ \E i \in 1..Len(positions) : positions[i].state = OPEN /\ positions[i].sl # positions[i].initial_sl
    /\ account.balance # account.initial_balance

\* C5: after every candle step, min_equity <= equity <= max_equity.
C5_EquityWithinExtremes ==
    /\ account.min_equity <= account.equity
    /\ account.equity <= account.max_equity

\* the equity, carrying unrealised profit, lies strictly between its extremes
C5_Witness ==
    /\ account.min_equity < account.equity
    /\ account.equity < account.max_equity
    /\ account.equity # account.balance

\* the positions closed by the step from the unprimed to the primed state
ClosedByStep(i) ==
    /\ positions'[i].state = CLOSED
    /\ (i > Len(positions) \/ positions[i].state = OPEN)

RECURSIVE RealisedByStepFrom(_)
RealisedByStepFrom(i) ==
    IF i > Len(positions') THEN 0
    ELSE (IF ClosedByStep(i)
          THEN positions'[i].profit * positions'[i].vol * positions'[i].contract ELSE 0)
         + RealisedByStepFrom(i + 1)

\* C6: a position goes from OPEN to CLOSED once; once it is CLOSED no later
\* SL/TP check, CLOSE action or MOVE_SL action changes its state, sl, close
\* price, profit or exit_time, and the balance moves only by the profit of the
\* positions a step closes.
C6_ClosedIsFinal ==
    [][/\ Len(positions') >= Len(positions)
       /\ \A i \in 1..Len(positions) :
              positions[i].state = CLOSED => positions'[i] = positions[i]
       /\ account'.balance = account.balance + RealisedByStepFrom(1)]_vars

\* a position closed on an earlier candle, whose stop the latest row reaches,
\* has met a CLOSE and a MOVE_SL action for its type
C6_Witness ==
    /\ Stepped /\ Len(mods) = 2
    /\ \E i \in 1..Len(positions) :
          /\ positions[i].state = CLOSED
          /\ positions[i].exit_time < pst_iloc
          /\ mods[1].position_type = positions[i].type
          /\ IF positions[i].type = BUY THEN row.low <= positions[i].sl
                                        ELSE row.high >= positions[i].sl

\* the latest row reaches both the stop loss and the take profit of p
ReachesBoth(p) ==
    /\ p.sl # None /\ p.tp # None
    /\ IF p.type = BUY THEN row.low <= p.sl /\ row.high >= p.tp
                        ELSE row.high >= p.sl /\ row.low <= p.tp

\* C7: a position that was open with SL and TP set when a candle reaching both
\* levels arrived is closed by that candle at the SL price.
C7_StopLossFirst ==
    Stepped =>
        \A i \in 1..Len(positions) :
            (positions[i].entry_time < pst_iloc /\ positions[i].exit_time = pst_iloc
                /\ ReachesBoth(positions[i]))
            => positions[i].close = positions[i].sl

\* both kinds of position have been closed by a candle reaching both levels
C7_Witness ==
    /\ Stepped
    /\ \E i \in 1..Len(positions) :
          /\ positions[i].entry_time < pst_iloc /\ positions[i].exit_time = pst_iloc
          /\ ReachesBoth(positions[i])
          /\ positions[i].close # positions[i].tp


\* the levels of p, with stop loss sl, lie on their sides of the entry price
LevelsAround(p, sl) ==
    IF p.type = BUY
    THEN (sl # None => sl < p.price) /\ (p.tp # None => p.price < p.tp)
    ELSE (sl # None => p.price < sl) /\ (p.tp # None => p.tp < p.price)

C1_MoveSlEveryBosPhase ==
    \A k \in 2..Len(history) :
        (/\ history[k].in_bos
         /\ ~history[k - 1].in_bos
         /\ \E i \in 1..(k - 2) : history[i].in_bos)
        => history[k].move_sl

\* C3: a position opened on candle k is still OPEN at the end of step k: the
\* actions of the step are applied before the new position is appended.
C3_OpenAtEndOfEntryStep ==
    (Stepped /\ status = "running") =>
        \A i \in 1..Len(positions) :
            positions[i].entry_time = pst_iloc => positions[i].state = OPEN

OpenAtPlacement ==
    CountOpenPositions(
        CheckPositionsFrom([account |-> account, positions |-> positions, err |-> FALSE],
                           1, pst_iloc', row'.low, row'.high).positions)

\* the account and positions the step would have left without its order
WithoutOrder ==
    AccountStep([account |-> account, positions |-> positions, err |-> FALSE],
                Nil, mods', pst_iloc', row', options)

\* C13: an advisor order arriving while open_positions >= max_concurrent_trades
\* is dropped and leaves positions, balance and equity as the candle would
\* have left them without it; an order with levels on their sides of the entry
\* price arriving while open_positions < max_concurrent_trades, also after a
\* position has closed at the limit, is opened.
C13_DropAtLimitOpenBelow ==
    [][(trade' # Nil) =>
          IF OpenAtPlacement >= max_concurrent_trades
          THEN /\ account' = WithoutOrder.account
               /\ positions' = WithoutOrder.positions
          ELSE ~PositionRejected(trade'.type, trade'.price, trade'.sl, trade'.tp) =>
                  /\ Len(positions') = Len(positions) + 1
                  /\ LET p == positions'[Len(positions')]
                     IN  /\ p.entry_time = pst_iloc'
                         /\ p.type = trade'.type /\ p.vol = trade'.vol
                         /\ p.price = trade'.price /\ p.initial_sl = trade'.sl
                         /\ p.tp = trade'.tp]_vars

\* max_concurrent_trades positions were open, the latest row closed one of
\* them at its stop loss or take profit, and the order of that row was opened
C13_Witness ==
    /\ Stepped /\ trade # Nil
    /\ Len(positions) = max_concurrent_trades + 1
    /\ positions[Len(positions)].entry_time = pst_iloc
    /\ \A i \in 1..max_concurrent_trades :
          /\ positions[i].entry_time < pst_iloc
          /\ positions[i].exit_time \in {None, pst_iloc}
    /\ \E i \in 1..max_concurrent_trades : positions[i].exit_time = pst_iloc

C15_RunsIdentical == replay.a.signals = replay.b.signals

\* C16: when no SR files are provided the back test never performs an SR
\* refresh and processes every low-TF candle: a row whose index is a multiple
\* of the refresh cycle is stepped through like any other.
C16_RunsWithoutSrFiles ==
    (~options.sr_files /\ Stepped /\ pst_iloc % sr_refresh_window = 0)
    => status = "running"

\* ------------------------------------------------------------ the detector
\* C17: after every candle, every segment has bos_num equal to the number of
\* its bos_candles, which is at most the number of its candles.
C17_BosCountIsBosCandles ==
    \A s \in AllSegments :
        /\ s.bos_num = Len(s.bos_candles)
        /\ Len(s.bos_candles) <= Len(s.candles)

\* a DOWN segment has broken structure twice
C17_Witness ==
    \E s \in AllSegments :
        s.dir = DOWN /\ s.bos_num >= 2 /\ Len(s.candles) > Len(s.bos_candles)

\* the segment a candle fed to the list segs is added to
ActiveKrakenSegment(segs) ==
    IF Last(segs).choc_confirmed THEN KrakenNewSegment(Last(segs)) ELSE Last(segs)

ActiveSRSegment(segs) ==
    IF Last(segs).choc_confirmed THEN SRNewSegment(Last(segs)) ELSE Last(segs)

\* the candle that took segment pre to post closed on the key level of the
\* BOS test and counted as no BOS
NoBosOnEqualClose(pre, post, close) ==
    (\/ pre.dir = UP /\ close = pre.key_high
     \/ pre.dir = DOWN /\ close = pre.key_low)
    => /\ post.bos_num = pre.bos_num
       /\ post.in_bos => pre.in_bos

\* C18: the BOS test is strict: in an UP segment a candle whose close equals
\* key_high does not increment bos_num or set in_bos, and in a DOWN segment a
\* close equal to key_low does not, whatever the other flags are.
C18_BosTestStrict ==
    [][/\ \A l \in DOMAIN segments :
              segments'[l] # segments[l] =>
                  NoBosOnEqualClose(ActiveKrakenSegment(segments[l]),
                                    Last(segments'[l]), last_close')
       /\ \A l \in DOMAIN sr_segments :
              sr_segments'[l] # sr_segments[l] =>
                  NoBosOnEqualClose(ActiveSRSegment(sr_segments[l]),
                                    Last(sr_segments'[l]), last_close')]_vars

\* the latest candle closed on key_high of an UP segment that was pulling back
\* and the segment is still pulling back
C18_Witness ==
    \E segs \in AllSegmentLists :
        LET s == Last(segs)
        IN  /\ s.dir = UP /\ s.in_pull_back /\ ~s.in_bos /\ ~s.choc
            /\ Len(s.candles) >= 3
            /\ Last(s.candles) = fed - 1
            /\ s.last_high_candle = fed - 1
            /\ last_close = s.key_high

\* ---------------------------------------------------------------- the zones
\* the aggregates process_zones holds after the first k raw zones
ZonesAfter(k) == ProcessZones(<<>>, SubSeq(raw_sr_zones, 1, k), sr_mode)

Max2(a, b) == IF a > b THEN a ELSE b

\* aggregate a has become b by the merge of the raw zone raw, of interval int
MergedAsClaimed(a, raw, int, b) ==
    /\ b.interval = <<Min2(a.interval[1], int[1]), Max2(a.interval[2], int[2])>>
    /\ b.retests = a.retests + 1
    /\ b.x = Min2(a.x, raw.x)
    /\ raw.x < a.x => b.type = raw.type
    /\ a.x < raw.x => b.type = a.type

\* a raw zone whose wick, body and full candle are [lo, hi]
RawExample(lo, hi, x) ==
    [type |-> SUPPORT, x |-> x, full_candle |-> <<lo, hi>>, body |-> <<lo, hi>>,
     wick |-> <<lo, hi>>]

\* C19: merging a raw zone [rlo, rhi] into an overlapping aggregate [alo, ahi]
\* yields [min(alo, rlo), max(ahi, rhi)], one more retest, the earlier of the
\* two anchors and the type of the zone with the earlier anchor; every other
\* raw zone, and so every raw zone overlapping no aggregate, creates a new
\* aggregate of its own interval, anchor and type with retests = 0; raw zones
\* [100,102], [101,103], [104,105] give [100,103] with retests 1 and [104,105]
\* with retests 0.
C19_MergeAsClaimed ==
    sr_pc = "processed" =>
      /\ LET out == ProcessZones(<<>>, <<RawExample(100, 102, 1), RawExample(101, 103, 2),
                                        RawExample(104, 105, 3)>>, sr_mode)
         IN  /\ Len(out) = 2
             /\ out[1].interval = <<100, 103>> /\ out[1].retests = 1
             /\ out[2].interval = <<104, 105>> /\ out[2].retests = 0
      /\ \A k \in 1..Len(raw_sr_zones) :
            LET before == ZonesAfter(k - 1)
                after == IF k = Len(raw_sr_zones) THEN aggr_sr_zones ELSE ZonesAfter(k)
                raw == raw_sr_zones[k]
                int == ModeInterval(raw, sr_mode)
            IN  /\ \/ /\ Len(after) = Len(before) + 1
                      /\ SubSeq(after, 1, Len(before)) = before
                      /\ after[Len(after)] =
                             [type |-> raw.type, x |-> raw.x, interval |-> int, retests |-> 0]
                   \/ /\ Len(after) = Len(before)
                      /\ \E i \in 1..Len(before) :
                            /\ \A j \in 1..Len(before) : j # i => after[j] = before[j]
                            /\ Overlap(before[i], [interval |-> int])
                            /\ MergedAsClaimed(before[i], raw, int, after[i])
                /\ (\A i \in 1..Len(before) : ~Overlap(before[i], [interval |-> int]))
                   => Len(after) = Len(before) + 1

\* the zones were aggregated into one aggregate that took the anchor and type
\* of a raw zone merged into it, and another that no raw zone has retested
C19_Witness ==
    /\ sr_pc = "processed"
    /\ Len(aggr_sr_zones) = 2
    /\ \E i \in 1..2 :
          /\ aggr_sr_zones[i].retests = 1
          /\ aggr_sr_zones[3 - i].retests = 0
          /\ \E k \in 2..Len(raw_sr_zones) :
                /\ aggr_sr_zones[i].x = raw_sr_zones[k].x
                /\ aggr_sr_zones[i].type = raw_sr_zones[k].type
                /\ \A j \in 1..(k - 1) : raw_sr_zones[j].x > raw_sr_zones[k].x

\* the candle that took segment pre to post confirmed a ChOC
Confirms(pre, post) == post.choc_confirmed /\ ~pre.choc_confirmed

\* choc was set by a candle strictly before the one that confirmed it
ChocBeforeConfirm(pre, post) ==
    /\ pre.choc
    /\ pre.choc_candles # <<>>
    /\ Last(pre.choc_candles) < post.choc_confirm_candle

\* a ChOC pull back starts on a candle after the ChOC candle
PullBackAfterChoc(pre, post) ==
    (post.in_choc_pull_back /\ ~pre.in_choc_pull_back) => pre.choc

\* C20 as stated: a segment reaches choc_confirmed only if choc was set by a
\* strictly earlier candle and in_choc_pull_back became true on a candle after
\* the ChOC candle and before the confirming candle; the pull back and the
\* confirmation never happen on the same candle.
ConfirmedAfterPullBack(pre, post) ==
    /\ Confirms(pre, post) => ChocBeforeConfirm(pre, post) /\ pre.in_choc_pull_back
    /\ PullBackAfterChoc(pre, post)

C20_AsStated ==
    [][/\ \A l \in DOMAIN segments :
              segments'[l] # segments[l] =>
                  ConfirmedAfterPullBack(ActiveKrakenSegment(segments[l]), Last(segments'[l]))
       /\ \A l \in DOMAIN sr_segments :
              sr_segments'[l] # sr_segments[l] =>
                  ConfirmedAfterPullBack(ActiveSRSegment(sr_segments[l]),
                                         Last(sr_segments'[l]))]_vars

\* the pull back has started by the end of the confirming candle, and before
\* that candle when no candle so far has gapped
ConfirmedWithPullBack(pre, post) ==
    /\ Confirms(pre, post) =>
          /\ ChocBeforeConfirm(pre, post)
          /\ post.in_choc_pull_back
          /\ gap_free' => pre.in_choc_pull_back
    /\ PullBackAfterChoc(pre, post)

\* C20: a segment reaches choc_confirmed only if choc was set by a strictly
\* earlier candle and in_choc_pull_back became true on a candle after the ChOC
\* candle and not after the confirming candle; as long as every candle opens
\* at the close of the one before it, the pull back and the confirmation
\* never happen on the same candle.
C20_ConfirmAfterPullBack ==
    [][/\ \A l \in DOMAIN segments :
              segments'[l] # segments[l] =>
                  ConfirmedWithPullBack(ActiveKrakenSegment(segments[l]), Last(segments'[l]))
       /\ \A l \in DOMAIN sr_segments :
              sr_segments'[l] # sr_segments[l] =>
                  ConfirmedWithPullBack(ActiveSRSegment(sr_segments[l]),
                                        Last(sr_segments'[l]))]_vars

\* a DOWN segment of a stream without gaps met its ChOC, its ChOC pull back
\* and the confirmation on three candles, in that order
C20_Witness ==
    /\ gap_free
    /\ \E s \in AllSegments :
          /\ s.dir = DOWN /\ s.choc_confirmed
          /\ Last(s.choc_candles) < s.key_low_candle
          /\ s.key_low_candle < s.choc_confirm_candle

\* the candle that took segment pre to post counted as a BOS
BosFires(pre, post) == post.bos_num > pre.bos_num

\* the candle that took segment pre to post set choc or choc_confirmed
ChocFires(pre, post) == (post.choc /\ ~pre.choc) \/ Confirms(pre, post)

\* C21: on a single candle at most one of BOS and ChOC / ChOC confirmation
\* fires: bos_num is never incremented by a candle that also sets choc or
\* choc_confirmed, for every segment and candle.
C21_BosExcludesChoc ==
    [][/\ \A l \in DOMAIN segments :
              segments'[l] # segments[l] =>
                  LET pre == ActiveKrakenSegment(segments[l])
                      post == Last(segments'[l])
                  IN  ~(BosFires(pre, post) /\ ChocFires(pre, post))
       /\ \A l \in DOMAIN sr_segments :
              sr_segments'[l] # sr_segments[l] =>
                  LET pre == ActiveSRSegment(sr_segments[l])
                      post == Last(sr_segments'[l])
                  IN  ~(BosFires(pre, post) /\ ChocFires(pre, post))]_vars

\* the latest candle broke structure in a segment that was in ChOC before it
C21_Witness ==
    \E segs \in AllSegmentLists :
        LET s == Last(segs)
        IN  /\ s.bos_candles # <<>> /\ Last(s.bos_candles) = fed - 1
            /\ s.choc_candles # <<>> /\ Last(s.choc_candles) < fed - 1
            /\ ~s.choc

\* ---------------------------------------------------------------- the mirror
\* the segment seen under the mirror: directions, highs and lows and their
\* candles change places, flags and counters stay
MirrorSegment(s) ==
    [s EXCEPT !.dir = IF s.dir = UP THEN DOWN ELSE IF s.dir = DOWN THEN UP ELSE s.dir,
              !.key_high = MirrorPrice(s.key_low),
              !.key_low = MirrorPrice(s.key_high),
              !.last_high = MirrorPrice(s.last_low),
              !.last_low = MirrorPrice(s.last_high),
              !.key_high_candle = s.key_low_candle,
              !.key_low_candle = s.key_high_candle,
              !.last_high_candle = s.last_low_candle,
              !.last_low_candle = s.last_high_candle,
              !.segment_high = MirrorPrice(s.segment_low),
              !.segment_low = MirrorPrice(s.segment_high),
              !.highest_candle = s.lowest_candle,
              !.lowest_candle = s.highest_candle,
              !.key_high_candles = s.key_low_candles,
              !.key_low_candles = s.key_high_candles]

\* C22: the DOWN rules are the exact mirror of the UP rules: for candle
\* streams without close = open candles, the run over the price-mirrored
\* stream holds the mirrored segment state after every candle: direction, all
\* flags, key and last highs and lows swapped, key_high_candles and
\* key_low_candles swapped.
C22_DownMirrorsUp ==
    /\ Len(replay.b.segments) = Len(replay.a.segments)
    /\ \A i \in 1..Len(replay.a.segments) :
          replay.b.segments[i] = MirrorSegment(replay.a.segments[i])

\* a segment seeded from its parent with the parent's levels and their
\* candles, before a candle is added to it
SeededSegment(parent) ==
    [parent EXCEPT !.dir = IF parent.dir = UP THEN DOWN ELSE UP,
                   !.choc = FALSE,
                   !.choc_confirmed = FALSE,
                   !.in_bos = TRUE,
                   !.in_pull_back = FALSE,
                   !.in_choc_pull_back = FALSE,
                   !.bos_num = 0,
                   !.segment_high = None,
                   !.segment_low = None,
                   !.candles = <<>>,
                   !.bos_candles = <<>>,
                   !.choc_candles = <<>>,
                   !.key_high_candles = <<>>,
                   !.key_low_candles = <<>>,
                   !.highest_candle = None,
                   !.lowest_candle = None,
                   !.choc_confirm_candle = None]

\* the list segs has grown into post by a segment seeded from its last
\* segment, to which the candle of the step was added
GrownBySeeded(segs, post) ==
    Len(post) > Len(segs) =>
        /\ Len(post) = Len(segs) + 1
        /\ Last(segs).choc_confirmed
        /\ \E shape \in CandleShapes :
              Last(post) = AddCandle(SeededSegment(Last(segs)), Candle(fed, shape))

\* C23: a segment created after a ChOC confirmation, in the coordinator and in
\* the SR structure alike, has the direction opposite to its parent, the
\* parent's key_high / key_low and last_high / last_low together with their
\* candle references, in_bos = true, all other flags false, bos_num 0, empty
\* candle lists and unset segment_high / segment_low.
C23_NewSegmentSeeded ==
    [][/\ \A l \in DOMAIN segments : GrownBySeeded(segments[l], segments'[l])
       /\ \A l \in DOMAIN sr_segments : GrownBySeeded(sr_segments[l], sr_segments'[l])]_vars

\* ------------------------------------------------- the zones of the segments
\* the raw zone z is the zone of segment seg: its type and its extreme candle
ZoneOfSegment(z, seg) ==
    IF seg.dir = UP THEN z.type = RESISTANCE /\ z.x = seg.highest_candle
    ELSE z.type = SUPPORT /\ z.x = seg.lowest_candle

\* the candle the raw zone z is anchored at was added to segment seg
AnchoredIn(z, seg) == \E k \in 1..Len(seg.candles) : seg.candles[k] = z.x

\* no raw zone of zones is anchored in the first segment of a level
FirstSegmentsSkipped(zones) ==
    \A l \in DOMAIN sr_segments :
        \A k \in 1..Len(zones) : ~AnchoredIn(zones[k], sr_segments[l][1])

\* C24 as stated: compile_zones derives a raw SR zone only from completed
\* (choc_confirmed) non-first segments: neither the first segment nor the
\* currently growing last segment of an SR timeframe contributes a raw zone.
C24_AsStated ==
    [][compiles' # compiles =>
          /\ FirstSegmentsSkipped(raw_sr_zones')
          /\ \A l \in DOMAIN sr_segments :
                ~Last(sr_segments[l]).choc_confirmed =>
                    \A k \in 1..Len(raw_sr_zones') :
                        ~AnchoredIn(raw_sr_zones'[k], Last(sr_segments[l]))]_vars

\* C24: compile_zones derives one raw SR zone from every segment of an SR
\* timeframe after the first, completed or still growing, in the order of
\* the segments, and none from the first segment.
C24_ZonesOfNonFirstSegments ==
    [][compiles' # compiles =>
          /\ FirstSegmentsSkipped(raw_sr_zones')
          /\ LET low == sr_segments.low
                 high == sr_segments.high
             IN  /\ Len(raw_sr_zones') = (Len(low) - 1) + (Len(high) - 1)
                 /\ \A i \in 2..Len(low) : ZoneOfSegment(raw_sr_zones'[i - 1], low[i])
                 /\ \A i \in 2..Len(high) :
                       ZoneOfSegment(raw_sr_zones'[Len(low) - 1 + i - 1], high[i])]_vars

\* compile_zones has run over a level whose first segment was completed and
\* whose second segment is still growing: the one zone is the second segment's
C24_Witness ==
    /\ sr_pc = "compiled"
    /\ Len(raw_sr_zones) = 1
    /\ \E l \in DOMAIN sr_segments :
          /\ Len(sr_segments[l]) = 2
          /\ sr_segments[l][1].dir # UNDETERMINED
          /\ ~sr_segments[l][2].choc_confirmed
          /\ AnchoredIn(raw_sr_zones[1], sr_segments[l][2])

\* C25: after every SR refresh the aggregated zone set is built only from the
\* raw zones compiled in that refresh: no aggregated zone of an earlier
\* refresh survives, including when the refresh compiles no raw zone at all.
C25_RefreshRebuilds ==
    [][compiles' # compiles =>
          /\ aggr_sr_zones' = AggregateFrom(<<>>, raw_sr_zones', 1, sr_mode)
          /\ raw_sr_zones' = <<>> => aggr_sr_zones' = <<>>]_vars

\* the intervals a and r share more than a point
PositiveOverlap(a, r) == Max2(a[1], r[1]) < Min2(a[2], r[2])

\* the intervals a and r share exactly one boundary point of r
TouchesOnly(a, r) == ~PositiveOverlap(a, r) /\ (r[2] = a[1] \/ r[1] = a[2])

\* C26: a raw zone whose interval shares more than a point with an existing
\* aggregate is merged and creates no new aggregate, wherever the two
\* intervals lie; a raw zone that only touches an aggregate at one point
\* (rhi = alo or rlo = ahi) is not merged into it.
C26_PositiveOverlapMerges ==
    sr_pc = "processed" =>
        \A k \in 1..Len(raw_sr_zones) :
            LET before == ZonesAfter(k - 1)
                after == IF k = Len(raw_sr_zones) THEN aggr_sr_zones ELSE ZonesAfter(k)
                int == ModeInterval(raw_sr_zones[k], sr_mode)
            IN  /\ (\E i \in 1..Len(before) : PositiveOverlap(before[i].interval, int))
                   => Len(after) = Len(before)
                /\ \A i \in 1..Len(before) :
                      TouchesOnly(before[i].interval, int) => after[i] = before[i]

\* C27: every aggregated SR zone has an interval [lo, hi] with lo < hi, in
\* every zoning mode and for every anchor candle, candles without a wick or
\* without a body included.
C27_AggregatesHaveWidth ==
    sr_pc = "processed" =>
        \A i \in 1..Len(aggr_sr_zones) :
            aggr_sr_zones[i].interval[1] < aggr_sr_zones[i].interval[2]

\* ------------------------------------------------------------------ the feed
\* the candles a level's machine has received, in order
RECURSIVE Received(_)
Received(segs) ==
    IF segs = <<>> THEN <<>> ELSE Head(segs).candles \o Received(Tail(segs))

\* the step's SR refresh raised, so the step ended before its feeds
RefreshRaised ==
    /\ ~options.sr_files
    /\ pst_iloc' % sr_refresh_window = 0
    /\ status' = "aborted"

\* the level received nothing in the step
NotFed(level) == Received(segments'[level]) = Received(segments[level])

\* the level received the candle of index j, and nothing else, in the step
FedCandle(level, j) == Received(segments'[level]) = Append(Received(segments[level]), j)

\* the feeds of a step whose candle counts as number i: the low level receives
\* the row of the step, then each higher level the row i / ratio when i is a
\* multiple of its ratio, unless an add_candle before it raised
FeedsInOrder(i) ==
    /\ FedCandle("low", pst_iloc')
    /\ IF Last(segments'.low).type_error THEN NotFed("mid")
       ELSE IF i % PstLevelRatio.mid = 0 THEN FedCandle("mid", i \div PstLevelRatio.mid)
       ELSE NotFed("mid")
    /\ IF Last(segments'.low).type_error \/ Last(segments'.mid).type_error THEN NotFed("high")
       ELSE IF i % PstLevelRatio.high = 0 THEN FedCandle("high", i \div PstLevelRatio.high)
       ELSE NotFed("high")

\* the step fed no level because its refresh raised, or fed the levels in order
StepFeeds(i) ==
    IF RefreshRaised THEN \A l \in DOMAIN segments : NotFed(l)
    ELSE FeedsInOrder(i)

\* C28 as stated: at each low-TF step i, counted from 0 within the simulation
\* window, the low machine receives exactly one candle and each higher level
\* L receives a candle iff i mod pst_level_ratios[L] = 0, the one at index
\* i / pst_level_ratios[L]; a due SR refresh runs before the low feed, which
\* runs before the mid and high feeds.
C28_AsStated ==
    [][status = "running" => StepFeeds(Len(history))]_vars

\* C28: at each low-TF step, with i the index of the step's row in the low-TF
\* file, the low machine receives exactly one candle and each higher level L
\* receives a candle iff i mod pst_level_ratios[L] = 0, the one at index
\* i / pst_level_ratios[L]; a due SR refresh runs before the low feed, which
\* runs before the mid and high feeds, so a step feeds nothing once its
\* refresh has raised and no higher level once an earlier feed has raised.
C28_FeedsByFileIndex ==
    [][status = "running" => StepFeeds(pst_iloc')]_vars

\* the second step of a window that starts at row 3 has fed the mid level its
\* row 2
C28_Witness ==
    /\ status = "running"
    /\ Len(history) = 2
    /\ pst_iloc = Len(history) + 2
    /\ Received(segments.mid) # <<>>
    /\ Last(Received(segments.mid)) = pst_iloc \div PstLevelRatio.mid

\* the indices of the sequence rec rise by one from each candle to the next
Consecutive(rec) == \A k \in 1..(Len(rec) - 1) : rec[k + 1] = rec[k] + 1

\* C29: across warm-up and simulation the mid and high machines receive
\* higher-TF candles with consecutive indices, each exactly once and in
\* ascending order, for every start index, one that is not a multiple of the
\* level ratio included: no candle is skipped or fed twice where the warm-up
\* ends and the simulation begins.
C29_HigherFeedsConsecutive ==
    /\ Consecutive(Received(segments.mid))
    /\ Consecutive(Received(segments.high))

\* the last low-TF row the candle of index j of the level spans
LastRowOf(level, j) == j * PstLevelRatio[level] + PstLevelRatio[level] - 1

\* C30: no look-ahead: a higher-TF candle of index j at ratio r, which spans
\* the low-TF candles j * r .. j * r + r - 1, is fed to its machine only at a
\* step i >= j * r + r - 1, so that the signals of step i never depend on
\* low-TF prices later than candle i.
C30_NoLookAhead ==
    [][status = "running" =>
          \A l \in DOMAIN segments :
              ~NotFed(l) => pst_iloc' >= LastRowOf(l, Last(Received(segments'[l])))]_vars

\* ------------------------------------------------------- the stop moves
\* the candle step to the primed state carries a MOVE_SL action
MoveSlApplied == \E a \in 1..Len(mods') : mods'[a].action = "MOVE_SL"

\* direction validity of a stop at a candle close
StopValid(p, close_price) ==
    IF p.type = BUY
    THEN p.sl < close_price /\ p.sl >= p.price
    ELSE p.sl > close_price /\ p.sl <= p.price

\* C31: every MOVE_SL the driver applies respects direction validity: a moved
\* stop of a Long is strictly below the candle close and not below the entry
\* price, a moved stop of a Short strictly above the close and not above the
\* entry price; a target that violates this is not applied and the run
\* continues.
C31_MoveSlDirectionValid ==
    [][MoveSlApplied
       => /\ status' = "running"
          /\ \A i \in 1..Len(positions) :
                positions'[i].sl # positions[i].sl
                => StopValid(positions'[i], row'.close)]_vars

\* the MOVE_SL action of the candle step to the primed state
MoveSlOfStep == mods'[CHOOSE k \in 1..Len(mods') : mods'[k].action = "MOVE_SL"]

\* R of a position at a close: below to_break_even_at_r, above trailing_at_r
RBelowBreakEven(p, close_price) ==
    ~RatioGe(p.price - close_price, p.initial_sl - p.price, to_break_even_at_r)

RAboveTrailing(p, close_price) ==
    ~RatioLe(p.price - close_price, p.initial_sl - p.price, trailing_at_r)

\* new_sl_target moved by sl_level_margin of the initial risk toward the entry
MarginAdjusted(p, target) ==
    IF p.type = BUY
    THEN target - ((p.price - p.initial_sl) * sl_level_margin[1]) \div sl_level_margin[2]
    ELSE target + ((p.initial_sl - p.price) * sl_level_margin[1]) \div sl_level_margin[2]

\* the target lies beyond the entry price on the winning side
BeyondEntry(p, target) ==
    IF p.type = BUY THEN target > p.price ELSE target < p.price

\* the stop of position i before the step: a position the step has opened
\* starts at its initial stop
StopBefore(i) == IF i <= Len(positions) THEN positions[i].sl ELSE positions'[i].initial_sl

\* the action does not reach the position
NotReached(p, action) ==
    \/ ~options.move_sl.allow
    \/ p.state = CLOSED
    \/ p.type # action.position_type
    \/ p.instr # action.instr

\* a stop unchanged when the action does not reach the position or R is below
\* to_break_even_at_r, at the entry price up to trailing_at_r, at the
\* margin-adjusted target above
StopAsStated(i, action, close_price) ==
    LET p == positions'[i]
    IN  IF NotReached(p, action) \/ RBelowBreakEven(p, close_price)
        THEN p.sl = StopBefore(i)
        ELSE IF ~RAboveTrailing(p, close_price)
        THEN p.sl = p.price
        ELSE p.sl = MarginAdjusted(p, action.new_sl_target)

\* C32 as stated: a MOVE_SL action leaves sl unchanged when move_sl.allow is
\* false, when the position is CLOSED or of the other type or instrument, or
\* when R at the candle close is below to_break_even_at_r; with R in
\* [to_break_even_at_r, trailing_at_r] sl becomes the entry price, and with R
\* above trailing_at_r the margin-adjusted new_sl_target.
C32_AsStated ==
    [][MoveSlApplied
       => \A i \in 1..Len(positions') : StopAsStated(i, MoveSlOfStep, row'.close)]_vars

\* the value the driver hands to move_sl above trailing_at_r
TrailingValue(p, target) ==
    IF BeyondEntry(p, target) THEN MarginAdjusted(p, target) ELSE p.price

\* move_sl refuses the trailing value of position j
Refuses(j, action, close_price) ==
    LET p == positions'[j]
    IN  /\ ~NotReached(p, action)
        /\ RAboveTrailing(p, close_price)
        /\ ~MoveSlAccepted(p, TrailingValue(p, action.new_sl_target), close_price)

StopAsApplied(i, action, close_price) ==
    LET p == positions'[i]
    IN  IF \/ NotReached(p, action)
           \/ RBelowBreakEven(p, close_price)
           \/ \E j \in 1..i : Refuses(j, action, close_price)
        THEN p.sl = StopBefore(i)
        ELSE IF ~RAboveTrailing(p, close_price)
        THEN p.sl = p.price
        ELSE p.sl = TrailingValue(p, action.new_sl_target)

\* C32: a MOVE_SL action leaves a position's sl unchanged when move_sl.allow
\* is false, when the position is CLOSED or of the other type or instrument,
\* or when its R at the candle close is below to_break_even_at_r; with R in
\* [to_break_even_at_r, trailing_at_r] sl becomes the entry price; with R above
\* trailing_at_r sl becomes the margin-adjusted new_sl_target when the target
\* lies beyond the entry price on the winning side and the entry price
\* otherwise; a value move_sl refuses leaves sl unchanged and ends the run,
\* the positions after it untouched.
C32_StopAfterMoveSl ==
    [][MoveSlApplied
       => /\ \A i \in 1..Len(positions') : StopAsApplied(i, MoveSlOfStep, row'.close)
          /\ status' = "aborted"
                <=> \E j \in 1..Len(positions') : Refuses(j, MoveSlOfStep, row'.close)]_vars

\* a stop moved to the entry price above trailing_at_r, by a target that does
\* not lie beyond the entry
C32_Witness ==
    /\ status = "running"
    /\ \E i \in 1..Len(positions), a \in 1..Len(mods) :
          /\ mods[a].action = "MOVE_SL"
          /\ positions[i].state = OPEN
          /\ positions[i].type = mods[a].position_type
          /\ positions[i].entry_time < pst_iloc
          /\ RAboveTrailing(positions[i], row.close)
          /\ ~BeyondEntry(positions[i], mods[a].new_sl_target)
          /\ positions[i].sl = positions[i].price
          /\ positions[i].initial_sl # positions[i].price

\* ------------------------------------------------------- the CLOSE action
\* the step to the primed state has run the advisor
AdvisorRan == Len(history') = Len(history) + 1

\* what the advisor has read of the low level in that step
LowSignal == LevelSignal(Last(segments'["low"]))

\* the configured exit event fires on the low level
ExitFires(low) ==
    \/ options.exit = "CHOC_CONFIRMED" /\ low.choc_confirmed
    \/ options.exit = "CHOC" /\ low.choc

\* the account of the step after the SL/TP checks, the equity update and the
\* placement of the order, before the actions
BeforeActions ==
    LET bk == [account |-> account, positions |-> positions, err |-> FALSE]
        checked == CheckPositionsFrom(bk, 1, pst_iloc', row'.low, row'.high)
        valued == UpdateEquity(checked, row'.low, row'.high)
    IN  PlaceTrade(valued, trade', pst_iloc', CountOpenPositions(valued.positions))

\* the actions of the step hold a CLOSE for the position q
CloseReaches(q) ==
    \E a \in 1..Len(mods') :
        /\ mods'[a].action = "CLOSE"
        /\ mods'[a].position_type = q.type
        /\ mods'[a].instr = q.instr
        /\ q.state = OPEN

ClosedAt(q, p, time, price) ==
    /\ p.state = CLOSED
    /\ p.close = price
    /\ p.exit_time = time
    /\ p.profit = (IF q.type = SELL THEN q.price - price ELSE price - q.price)
    /\ [p EXCEPT !.state = q.state, !.close = q.close, !.exit_time = q.exit_time,
                 !.profit = q.profit, !.reward_units = q.reward_units] = q

\* CLOSE is emitted for BUY exactly when the exit event fires in an UP segment
\* and for SELL exactly when it fires in a DOWN segment
CloseEmitted ==
    /\ (\E a \in 1..Len(mods') : mods'[a] = CloseAction(BUY))
          <=> ExitFires(LowSignal) /\ LowSignal.seg_dir = UP
    /\ (\E a \in 1..Len(mods') : mods'[a] = CloseAction(SELL))
          <=> ExitFires(LowSignal) /\ LowSignal.seg_dir = DOWN
    /\ \A a \in 1..Len(mods') :
          mods'[a].action = "CLOSE" => mods'[a] \in {CloseAction(BUY), CloseAction(SELL)}

\* the actions close the open positions a CLOSE names at the candle close and
\* leave the others as they were, but for a stop moved by MOVE_SL
CloseApplied ==
    ~BeforeActions.err
    => /\ Len(positions') = Len(BeforeActions.positions)
       /\ \A i \in 1..Len(positions') :
             LET q == BeforeActions.positions[i]
             IN  IF CloseReaches(q)
                 THEN ClosedAt(q, positions'[i], pst_iloc', row'.close)
                 ELSE [positions'[i] EXCEPT !.sl = q.sl] = q

\* C33: a CLOSE {position_type, instr} action closes every OPEN position
\* matching both fields at candle.close and leaves every other position
\* unchanged; it is emitted for BUY when the configured exit event fires in a
\* low-TF UP segment and for SELL when it fires in a DOWN segment.
C33_CloseAction == [][AdvisorRan => CloseEmitted /\ CloseApplied]_vars

\* a CLOSE action has closed a position that was open before the step's actions
C33_Witness ==
    /\ row # Nil
    /\ \E i \in 1..Len(positions), a \in 1..Len(mods) :
          /\ mods[a].action = "CLOSE"
          /\ positions[i].type = mods[a].position_type
          /\ positions[i].state = CLOSED
          /\ positions[i].exit_time = pst_iloc
          /\ positions[i].close = row.close
          /\ positions[i].sl # row.close
          /\ positions[i].tp # row.close

\* ------------------------------------------------- the ChOC latch and the SR test
\* the signals the advisor reads in the step to the primed state, and the
\* balance it sizes orders with
StepSignals == GetSignalData(segments', aggr_sr_zones', options.sr_files)

StepBalance == IF options.compound_risk THEN account.balance ELSE account.initial_balance

ChocEntryConfigured ==
    options.strategy = "PRICE_ACTION" /\ options.entry \in {"CHOC", "CHOC+BOS"}

\* C34: in PRICE_ACTION with entry CHOC or CHOC+BOS, every candle on which
\* low.choc is observed leaves the ChOC latch set, whatever the SR test
\* answers; and a candle that finds the latch set (low.choc continuously true
\* since it was set) is not tested again: generate_positions returns what its
\* BOS path alone returns.
C34_LatchBurntBeforeSrTest ==
    [][(AdvisorRan /\ ChocEntryConfigured /\ LowSignal.choc)
       => /\ advisor'.choc_expired
          /\ advisor.choc_expired
             => trade' = PriceActionBos(advisor, options, row'.close,
                                        StepBalance, StepSignals).trade]_vars

\* the candidate of one candle burnt the latch and opened no position (the SR
\* test rejected it); the next candle still observes low.choc and takes no
\* ChOC entry
C34_Witness ==
    /\ ChocEntryConfigured
    /\ status = "running"
    /\ Len(history) >= 2
    /\ history[Len(history) - 1].choc_entry
    /\ history[Len(history)].choc
    /\ ~history[Len(history)].choc_entry
    /\ advisor.choc_expired
    /\ trade = Nil
    /\ positions = <<>>

\* ------------------------------------------------- SIMPLE_TREND, long and short
\* the trend condition of short entries: mid DOWN (or UP with mid.choc), and
\* high DOWN (or UP with high.choc) or exclude_high_trend
ShortTrend(sig) ==
    /\ \/ sig.pst_mid.seg_dir = DOWN
       \/ sig.pst_mid.seg_dir = UP /\ sig.pst_mid.choc
    /\ \/ sig.pst_high.seg_dir = DOWN
       \/ sig.pst_high.seg_dir = UP /\ sig.pst_high.choc
       \/ options.exclude_high_trend

\* the configured low-TF entry event fires: choc_confirmed, or choc with the
\* latch clear
EntryFires(low) ==
    \/ options.entry = "CHOC_CONFIRMED" /\ low.choc_confirmed
    \/ options.entry = "CHOC" /\ low.choc /\ ~advisor.choc_expired

\* C35: SIMPLE_TREND short entries mirror long entries: in every signal state
\* with the short trend condition in which the entry event fires while
\* low.seg_dir is UP, generate_positions builds a SELL order; and it builds a
\* BUY order only while low.seg_dir is DOWN.
C35_ShortMirrorsLong ==
    [][(AdvisorRan /\ options.strategy = "SIMPLE_TREND")
       => /\ (ShortTrend(StepSignals) /\ EntryFires(LowSignal) /\ LowSignal.seg_dir = UP)
             => (trade' # Nil /\ trade'.type = SELL)
          /\ (trade' # Nil /\ trade'.type = BUY) => LowSignal.seg_dir = DOWN]_vars

\* ------------------------------------------------------- the order sizing
\* the raw volume of the call in sizing, as the fraction SizingNum / SizingDen
\* of a lot of 1/VolScale
SizingNum == sizing.balance * risk_per_trade[1]

SizingDen == risk_per_trade[2] * Abs(sizing.closing_price - sizing.sl) * trade_contract_size

\* build_position has been called with a stop away from the closing price
Sized == sizing # Nil /\ sizing.sl # sizing.closing_price

\* no order below volume_min, volume_max above volume_max
VolumeLimits ==
    /\ sizing.result.order = Nil <=> SizingNum < volume_min * SizingDen
    /\ (sizing.result.order # Nil /\ SizingNum > volume_max * SizingDen)
       => sizing.result.order.vol = volume_max

\* the raw volume lies between the limits
WithinLimits ==
    /\ sizing.result.order # Nil
    /\ SizingNum <= volume_max * SizingDen

\* C36 as stated: no order below volume_min, volume_max above volume_max, and
\* otherwise the raw volume rounded down to a multiple of volume_min, so that
\* the returned volume never exceeds the raw volume.
C36_AsStated ==
    Sized
    => /\ VolumeLimits
       /\ WithinLimits
          => sizing.result.order.vol
                = (SizingNum \div (volume_min * SizingDen)) * volume_min
       /\ sizing.result.order # Nil
          => sizing.result.order.vol * SizingDen <= SizingNum

\* C36: build_position returns no order when the raw volume
\* (balance * risk_per_trade) / (|entry - sl| * contract_size) is below
\* volume_min, returns volume_max when it is above volume_max, and otherwise
\* returns the raw volume rounded to the nearest value with volume_min's
\* decimal places, at most half a unit of that precision away from the raw
\* volume on either side.
C36_VolumeRoundedToNearest ==
    Sized
    => /\ VolumeLimits
       /\ WithinLimits
          => /\ sizing.result.order.vol % volume_min = 0
             /\ 2 * Abs(sizing.result.order.vol * SizingDen - SizingNum)
                   <= volume_min * SizingDen

\* a returned volume above the raw volume
C36_Witness ==
    /\ Sized
    /\ WithinLimits
    /\ sizing.result.order.vol * SizingDen > SizingNum

\* ------------------------------------------------------- equity and balance
\* C37: at the end of every candle step in which the account has no OPEN
\* position, account.equity equals account.balance.
C37_EquityIsBalanceWhenFlat ==
    (row # Nil /\ status = "running" /\ CountOpenPositions(positions) = 0)
    => account.equity = account.balance

\* ------------------------------------------------- in_bos and in_pull_back
\* C38: in every segment, at creation and after every candle, exactly one of
\* in_bos and in_pull_back is true.
C38_BosXorPullBack ==
    \A s \in AllSegments : s.in_bos # s.in_pull_back

\* a segment that pulled back, broke structure and pulled back again, and a
\* segment in ChOC
C38_Witness ==
    /\ \E s \in AllSegments : s.in_pull_back /\ ~s.in_bos /\ s.bos_num >= 1
    /\ \E s \in AllSegments : s.choc /\ s.in_pull_back

\* ------------------------------------------------------- the key levels
\* C39: once the first candle of a timeframe has been processed, key_high and
\* key_low of its segments are never unset: no pull back, ChOC pull back or
\* ChOC confirmation assigns an unset last_high or last_low to a key level, and
\* no comparison of a close with a key level meets an unset one.
C39_KeyLevelsSet ==
    \A s \in AllSegments :
        s.candles # <<>>
        => /\ s.key_high # None
           /\ s.key_low # None
           /\ ~s.type_error

\* a segment has gone through pull back, ChOC, ChOC pull back and ChOC
\* confirmation, and the segment after it has pulled back, taking its key
\* level from the last level it was seeded with
C39_Witness ==
    \E segs \in AllSegmentLists :
        /\ Len(segs) >= 2
        /\ segs[Len(segs) - 1].choc_confirmed
        /\ segs[Len(segs) - 1].in_choc_pull_back
        /\ Last(segs).candles # <<>>
        /\ Last(segs).in_pull_back

\* ------------------------------------------------- raw zones and aggregates
RECURSIVE RetestsFrom(_, _)
RetestsFrom(aggrs, i) ==
    IF i > Len(aggrs) THEN 0 ELSE aggrs[i].retests + RetestsFrom(aggrs, i + 1)

\* C40: after process_zones on a non-empty raw-zone list, the number of
\* aggregated zones plus the sum of their retests equals the number of raw
\* zones.
C40_AggregatesAccountForRaws ==
    (sr_pc = "processed" /\ Len(raw_sr_zones) >= 1)
    => Len(aggr_sr_zones) + RetestsFrom(aggr_sr_zones, 1) = Len(raw_sr_zones)

\* two aggregates, one of them retested
C40_Witness ==
    /\ sr_pc = "processed"
    /\ Len(raw_sr_zones) >= 3
    /\ Len(aggr_sr_zones) >= 2
    /\ RetestsFrom(aggr_sr_zones, 1) >= 1

====
